---------------------------- MODULE Spec2Model ----------------------------
(***************************************************************************)
(* Analytics & Insight Engine of PancrePal (src/analytics.py).             *)
(*                                                                         *)
(* Glucose readings are carried in tenths of mmol/L (7.0 mmol/L is 70), so *)
(* that every threshold of the source is an integer; percentages rounded   *)
(* to one decimal are carried in tenths of a percent (33.3% is 333).       *)
(* Sums, averages and ratios are compared exactly, by cross                *)
(* multiplication, where the source compares binary floating point values. *)
(* The two agree wherever the compared decimal values differ.  Rule 7 of   *)
(* generate_insights compares two averages of readings that can tie as     *)
(* decimals (stressed_avg = overall_avg + 0.9); which way the comparison   *)
(* of the rounded binary values then falls depends on the readings and on  *)
(* how the interpreter's sum() rounds, and float_ties is that outcome.     *)
(* A log entry is a record with the columns of LogEntry that the engine    *)
(* reads: timestamp (date, hour), blood_glucose, meal_type, mood and       *)
(* carbs_grams (None when carbs were not tracked).                         *)
(***************************************************************************)
EXTENDS Integers, Sequences, FiniteSets, TLC

VARIABLES entries, time_analysis, float_ties, pc, metrics, periods, patterns,
          suggestion, emitted, insights,
          users, session, log_entries, progress, response, today, streak_call

\* the state of the web application
appvars == <<users, session, log_entries, progress, response, today, streak_call>>

\* the inputs and the results of the analytics functions
analyticsvars == <<entries, time_analysis, float_ties, pc, metrics, periods, patterns,
                   suggestion, emitted, insights>>

vars == <<entries, time_analysis, float_ties, pc, metrics, periods, patterns, suggestion,
          emitted, insights, users, session, log_entries, progress, response, today,
          streak_call>>

(***************************************************************************)
(* Bounds of the explored inputs.                                          *)
(***************************************************************************)
MaxBlocks == 3

MaxTimeLen == 3

MaxRuleBlocks == 3

MaxOrderBlocks == 4

MaxSuggestBlocks == 3

MaxInsightBlocks == 3

MaxDinnerLen == 7

MaxCarbLen == 3

MaxCallLen == 9

MaxPeriodLen == 3

MaxLogs == 2

MaxDay == 2

MaxMealBlocks == 4

\* Largest number of blocks of a record set of SpecHypo
MaxHypoBlocks == 3
\* Largest number of records of a record set of SpecHypo
MaxHypoLen == 120

\* Largest number of blocks of a record set of SpecNight
MaxNightBlocks == 2

\* Largest number of blocks of a record set of SpecCarbSpike
MaxSpikeBlocks == 3

\* Largest number of blocks of a record set of SpecConsistency
MaxDayBlocks == 4

\* Largest number of blocks of a record set of SpecStress
MaxStressBlocks == 3

\* Latest log date of SpecStreak
MaxStreakDate == 4
\* Largest number of calls of update_streak on one row in SpecStreak
MaxStreakCalls == 4

(***************************************************************************)
(* Constants of the source.                                                *)
(***************************************************************************)
None == -1

GLUCOSE_TARGET_MIN == 39

GLUCOSE_TARGET_MAX == 100

GLUCOSE_HIGH_THRESHOLD == 111

GLUCOSE_LOW_THRESHOLD == 39

GLUCOSE_VERY_LOW_THRESHOLD == 33

(***************************************************************************)
(* Sequence helpers: Python's sum(), len([... for ... if ...]), set().     *)
(***************************************************************************)
RECURSIVE SumSeq(_)
SumSeq(s) == IF s = <<>> THEN 0 ELSE Head(s) + SumSeq(Tail(s))

Glucose(es) == [i \in 1..Len(es) |-> es[i].blood_glucose]

Carbs(es) == [i \in 1..Len(es) |-> es[i].carbs_grams]

Squares(s) == [i \in 1..Len(s) |-> s[i] * s[i]]

Dates(es) == {es[i].timestamp.date : i \in 1..Len(es)}

HasCarbs(e) == e.carbs_grams # None

IsInRange(g) == GLUCOSE_TARGET_MIN <= g /\ g <= GLUCOSE_TARGET_MAX

\* mutant: the hypo list filtered by the very-low threshold
IsHypo_VeryLow(g) == g < GLUCOSE_VERY_LOW_THRESHOLD

IsHypo(g) == g < GLUCOSE_LOW_THRESHOLD

IsHyper(g) == g > GLUCOSE_TARGET_MAX

(***************************************************************************)
(* Exact comparison a/b < c/d of non-negative fractions (b, d > 0) by the  *)
(* continued-fraction expansion, which never forms the product a*d.        *)
(***************************************************************************)
RECURSIVE FracLess(_, _, _, _)
FracLess(a, b, c, d) ==
    IF (a \div b) # (c \div d) THEN (a \div b) < (c \div d)
    ELSE IF c % d = 0 THEN FALSE
    ELSE IF a % b = 0 THEN TRUE
    ELSE FracLess(d, c % d, b, a % b)

FracLeq(a, b, c, d) == ~FracLess(c, d, a, b)

(***************************************************************************)
(* round(num / den, 0) of Python: nearest integer, ties to even.           *)
(***************************************************************************)
RoundDiv(num, den) ==
    LET q == num \div den
        r == num % den
    IN  IF 2 * r < den THEN q
        ELSE IF 2 * r > den THEN q + 1
        ELSE IF q % 2 = 0 THEN q ELSE q + 1

\* round((count / total) * 100, 1), in tenths of a percent
RoundPct(count, total) == RoundDiv(1000 * count, total)

(***************************************************************************)
(* calculate_advanced_metrics.  The square of the coefficient of variation *)
(* (as a fraction, not a percentage) is cv2_num / cv2_den:                 *)
(*   stdev^2 / mean^2 = (n*Q - S^2) * n / ((n - 1) * S^2)                  *)
(* with S the sum and Q the sum of squares of the n readings.              *)
(***************************************************************************)
CV2Num(gs) ==
    LET n == Len(gs)
        S == SumSeq(gs)
    IN  IF n > 1 /\ S > 0 THEN (n * SumSeq(Squares(gs)) - S * S) * n ELSE 0

CV2Den(gs) ==
    LET n == Len(gs)
        S == SumSeq(gs)
    IN  IF n > 1 /\ S > 0 THEN (n - 1) * S * S ELSE 1

\* coefficient_of_variation < pct, for pct a whole percentage: cv^2 < pct^2 / 10000
CVBelow(gs, pct) == FracLess(CV2Num(gs), CV2Den(gs), pct * pct, 10000)

\* time_in_range_pct >= pct
TIRAtLeast(gs, pct) == 100 * Len(SelectSeq(gs, IsInRange)) >= pct * Len(gs)

\* round(sqrt(num / den), 0): the t with (2t - 1)^2 <= 4 num / den < (2t + 1)^2,
\* a tie going to the even neighbour
RoundSqrt(num, den) ==
    LET t == CHOOSE u \in 0..400 :
                 /\ (u = 0 \/ (2 * u - 1) * (2 * u - 1) * den <= 4 * num)
                 /\ 4 * num < (2 * u + 1) * (2 * u + 1) * den
    IN  IF t > 0 /\ (2 * t - 1) * (2 * t - 1) * den = 4 * num /\ t % 2 = 1
        THEN t - 1 ELSE t

\* mutant: 'excellent' needs more than 70% in range
StatusOf_StrictTIR(gs) ==
    IF ~TIRAtLeast(gs, 70) \/ 100 * Len(SelectSeq(gs, IsInRange)) = 70 * Len(gs)
    THEN (IF TIRAtLeast(gs, 50) /\ CVBelow(gs, 50) THEN "good" ELSE "needs_attention")
    ELSE IF CVBelow(gs, 36) THEN "excellent"
    ELSE IF CVBelow(gs, 50) THEN "good"
    ELSE "needs_attention"

\* mutant: the variability comparison of the first branch is flipped
StatusOf_FlippedCV(gs) ==
    IF TIRAtLeast(gs, 70) /\ ~CVBelow(gs, 36) THEN "excellent"
    ELSE IF TIRAtLeast(gs, 50) /\ CVBelow(gs, 50) THEN "good"
    ELSE "needs_attention"

StatusOf(gs) ==
    IF TIRAtLeast(gs, 70) /\ CVBelow(gs, 36) THEN "excellent"
    ELSE IF TIRAtLeast(gs, 50) /\ CVBelow(gs, 50) THEN "good"
    ELSE "needs_attention"

TrendOf(status) ==
    IF status = "excellent" THEN "improving"
    ELSE IF status = "good" THEN "stable"
    ELSE "needs_attention"

calculate_advanced_metrics(es) ==
    IF es = <<>> THEN [status |-> "no_data"]
    ELSE
    LET glucose_values == Glucose(es)
        total_readings == Len(glucose_values)
        S == SumSeq(glucose_values)
        Q == SumSeq(Squares(glucose_values))
        hypo_frequency == Len(SelectSeq(glucose_values, IsHypo))
        hyper_frequency == Len(SelectSeq(glucose_values, IsHyper))
        entries_with_carbs == SelectSeq(es, HasCarbs)
        total_carbs == SumSeq(Carbs(entries_with_carbs))
        unique_dates == Dates(entries_with_carbs)
        status == StatusOf(glucose_values)
    IN  [ status |-> status,
          trend |-> TrendOf(status),
          mean_glucose |-> RoundDiv(S, total_readings),
          std_dev |-> IF total_readings > 1
                      THEN RoundSqrt(total_readings * Q - S * S,
                                     total_readings * (total_readings - 1))
                      ELSE 0,
          coefficient_of_variation |-> <<CV2Num(glucose_values), CV2Den(glucose_values)>>,
          time_in_range_pct |-> RoundPct(Len(SelectSeq(glucose_values, IsInRange)), total_readings),
          time_below_range_pct |-> RoundPct(hypo_frequency, total_readings),
          time_above_range_pct |-> RoundPct(hyper_frequency, total_readings),
          total_readings |-> total_readings,
          hypo_events |-> hypo_frequency,
          hyper_events |-> hyper_frequency,
          \* "round(x, 1) if x else None": an average of 0 is reported as None
          avg_carbs_per_entry |->
              IF entries_with_carbs # <<>> /\ total_carbs # 0
              THEN RoundDiv(10 * total_carbs, Len(entries_with_carbs)) ELSE None,
          avg_daily_carbs |->
              IF entries_with_carbs # <<>> /\ total_carbs # 0
              THEN RoundDiv(10 * total_carbs, Cardinality(unique_dates)) ELSE None,
          total_carbs |-> IF entries_with_carbs # <<>> THEN total_carbs ELSE 0,
          entries_with_carbs |-> Len(entries_with_carbs) ]

(***************************************************************************)
(* analyze_time_of_day.  The result maps each of the four period keys to   *)
(* its metrics; avg_glucose is in tenths of mmol/L, the percentages in     *)
(* tenths of a percent, avg_carbs in whole grams.                          *)
(***************************************************************************)
period_definitions ==
    [ morning   |-> [label |-> "Morning",   time_range |-> "5am - 12pm", icon |-> "sunrise"],
      afternoon |-> [label |-> "Afternoon", time_range |-> "12pm - 6pm", icon |-> "sun"],
      evening   |-> [label |-> "Evening",   time_range |-> "6pm - 11pm", icon |-> "cityscape"],
      night     |-> [label |-> "Night",     time_range |-> "11pm - 5am", icon |-> "moon"] ]

\* mutant: the morning window closed at 12 inclusive
PeriodOf_NoonInMorning(hour) ==
    IF 5 <= hour /\ hour <= 12 THEN "morning"
    ELSE IF 12 <= hour /\ hour < 18 THEN "afternoon"
    ELSE IF 18 <= hour /\ hour < 23 THEN "evening"
    ELSE "night"

PeriodOf(hour) ==
    IF 5 <= hour /\ hour < 12 THEN "morning"
    ELSE IF 12 <= hour /\ hour < 18 THEN "afternoon"
    ELSE IF 18 <= hour /\ hour < 23 THEN "evening"
    ELSE "night"

Bucket(es, period_key) ==
    SelectSeq(es, LAMBDA e : PeriodOf(e.timestamp.hour) = period_key)

\* mutant: an average of 0 tracked carbs is reported as absent
PeriodMetrics_ZeroCarbsAbsent(period_key, period_entries) ==
    LET meta == period_definitions[period_key]
        glucose_vals == Glucose(period_entries)
        n == Len(glucose_vals)
        carb_entries == SelectSeq(period_entries, HasCarbs)
    IN  IF period_entries = <<>>
        THEN [ label |-> meta.label, time_range |-> meta.time_range, icon |-> meta.icon,
               count |-> 0, avg_glucose |-> None, time_in_range_pct |-> None,
               hypo_pct |-> None, hyper_pct |-> None, avg_carbs |-> None,
               has_data |-> FALSE ]
        ELSE [ label |-> meta.label, time_range |-> meta.time_range, icon |-> meta.icon,
               count |-> n,
               avg_glucose |-> RoundDiv(SumSeq(glucose_vals), n),
               time_in_range_pct |-> RoundPct(Len(SelectSeq(glucose_vals, IsInRange)), n),
               hypo_pct |-> RoundPct(Len(SelectSeq(glucose_vals, IsHypo)), n),
               hyper_pct |-> RoundPct(Len(SelectSeq(glucose_vals, IsHyper)), n),
               avg_carbs |-> IF carb_entries # <<>> /\ SumSeq(Carbs(carb_entries)) # 0
                             THEN RoundDiv(SumSeq(Carbs(carb_entries)), Len(carb_entries))
                             ELSE None,
               has_data |-> TRUE ]

PeriodMetrics(period_key, period_entries) ==
    LET meta == period_definitions[period_key]
        glucose_vals == Glucose(period_entries)
        n == Len(glucose_vals)
        carb_entries == SelectSeq(period_entries, HasCarbs)
    IN  IF period_entries = <<>>
        THEN [ label |-> meta.label, time_range |-> meta.time_range, icon |-> meta.icon,
               count |-> 0, avg_glucose |-> None, time_in_range_pct |-> None,
               hypo_pct |-> None, hyper_pct |-> None, avg_carbs |-> None,
               has_data |-> FALSE ]
        ELSE [ label |-> meta.label, time_range |-> meta.time_range, icon |-> meta.icon,
               count |-> n,
               avg_glucose |-> RoundDiv(SumSeq(glucose_vals), n),
               time_in_range_pct |-> RoundPct(Len(SelectSeq(glucose_vals, IsInRange)), n),
               hypo_pct |-> RoundPct(Len(SelectSeq(glucose_vals, IsHypo)), n),
               hyper_pct |-> RoundPct(Len(SelectSeq(glucose_vals, IsHyper)), n),
               avg_carbs |-> IF carb_entries # <<>>
                             THEN RoundDiv(SumSeq(Carbs(carb_entries)), Len(carb_entries))
                             ELSE None,
               has_data |-> TRUE ]

analyze_time_of_day(es) ==
    [period_key \in DOMAIN period_definitions |->
        PeriodMetrics(period_key, Bucket(es, period_key))]

(***************************************************************************)
(* identify_recurring_patterns.  meal_groups is a dict: its keys iterate   *)
(* in the order of their first insertion.                                  *)
(***************************************************************************)
FirstSeen(es, seen) ==
    LET firsts == SelectSeq([i \in 1..Len(es) |-> i],
                            LAMBDA i : /\ es[i].meal_type \notin seen
                                       /\ \A j \in 1..(i - 1) :
                                              es[j].meal_type # es[i].meal_type)
    IN  [k \in 1..Len(firsts) |-> es[firsts[k]].meal_type]

\* list(meal_groups.keys())
MealOrder(es) == FirstSeen(es, {})

\* meal_groups[meal_type]
MealGroup(es, meal_type) == SelectSeq(es, LAMBDA e : e.meal_type = meal_type)

Take(s, n) == SubSeq(s, 1, IF Len(s) < n THEN Len(s) ELSE n)

Pattern(type, meal_type, severity) ==
    [type |-> type, context |-> meal_type, severity |-> severity,
     message |-> <<type, meal_type>>]

\* mutant: the share of high readings must exceed 60%
IsRecurringHigh_Strict(glucose_values) ==
    10 * Len(SelectSeq(glucose_values, LAMBDA g : g > GLUCOSE_HIGH_THRESHOLD))
        > 6 * Len(glucose_values)

\* high_count >= len(glucose_values) * 0.6
IsRecurringHigh(glucose_values) ==
    10 * Len(SelectSeq(glucose_values, LAMBDA g : g > GLUCOSE_HIGH_THRESHOLD))
        >= 6 * Len(glucose_values)

\* low_count >= len(glucose_values) * 0.5
IsRecurringLow(glucose_values) ==
    10 * Len(SelectSeq(glucose_values, LAMBDA g : g < GLUCOSE_VERY_LOW_THRESHOLD))
        >= 5 * Len(glucose_values)

\* GLUCOSE_TARGET_MIN <= avg <= GLUCOSE_TARGET_MAX
IsAvgInRange(glucose_values) ==
    /\ GLUCOSE_TARGET_MIN * Len(glucose_values) <= SumSeq(glucose_values)
    /\ SumSeq(glucose_values) <= GLUCOSE_TARGET_MAX * Len(glucose_values)

\* len(entries_with_carbs) >= 2 and avg_carbs > 60 and avg > GLUCOSE_HIGH_THRESHOLD
IsHighCarbHighGlucose(meal_entries) ==
    LET entries_with_carbs == SelectSeq(meal_entries, HasCarbs)
        glucose_values == Glucose(meal_entries)
    IN  /\ Len(entries_with_carbs) >= 2
        /\ SumSeq(Carbs(entries_with_carbs)) > 60 * Len(entries_with_carbs)
        /\ SumSeq(glucose_values) > GLUCOSE_HIGH_THRESHOLD * Len(glucose_values)

\* mutant: the in-range test is made before the recurring-low test
MealPatterns_InRangeFirst(meal_type, meal_entries) ==
    LET glucose_values == Glucose(meal_entries)
    IN  IF Len(meal_entries) < 2 THEN <<>>
        ELSE IF IsHighCarbHighGlucose(meal_entries)
             THEN <<Pattern("high_carb_high_glucose", meal_type, "info")>>
        ELSE IF IsRecurringHigh(glucose_values)
             THEN <<Pattern("recurring_high", meal_type, "info")>>
        ELSE IF IsAvgInRange(glucose_values)
             THEN <<Pattern("in_range", meal_type, "success")>>
        ELSE IF IsRecurringLow(glucose_values)
             THEN <<Pattern("recurring_low", meal_type, "warning")>>
        ELSE <<>>

\* one iteration of the loop over meal_groups: the patterns it appends
MealPatterns(meal_type, meal_entries) ==
    LET glucose_values == Glucose(meal_entries)
    IN  IF Len(meal_entries) < 2 THEN <<>>
        ELSE IF IsHighCarbHighGlucose(meal_entries)
             THEN <<[Pattern("high_carb_high_glucose", meal_type, "info")
                       EXCEPT !.message = <<"high_carb_high_glucose", meal_type,
                           RoundDiv(SumSeq(Carbs(SelectSeq(meal_entries, HasCarbs))),
                                    Len(SelectSeq(meal_entries, HasCarbs)))>>]>>
        ELSE IF IsRecurringHigh(glucose_values)
             THEN <<Pattern("recurring_high", meal_type, "info")>>
        ELSE IF IsRecurringLow(glucose_values)
             THEN <<Pattern("recurring_low", meal_type, "warning")>>
        ELSE IF IsAvgInRange(glucose_values)
             THEN <<Pattern("in_range", meal_type, "success")>>
        ELSE <<>>

RECURSIVE CollectPatterns(_, _)
CollectPatterns(order, es) ==
    IF order = <<>> THEN <<>>
    ELSE MealPatterns(Head(order), MealGroup(es, Head(order)))
             \o CollectPatterns(Tail(order), es)

\* list.sort(key = severity_order.get(severity, 3)) is stable: the warnings in
\* their order, then the infos, then the successes, then anything else
severity_order == [warning |-> 0, info |-> 1, success |-> 2]

SeverityKey(x) ==
    IF x.severity \in DOMAIN severity_order THEN severity_order[x.severity] ELSE 3

SortBySeverity(s) ==
    SelectSeq(s, LAMBDA x : SeverityKey(x) = 0) \o SelectSeq(s, LAMBDA x : SeverityKey(x) = 1)
        \o SelectSeq(s, LAMBDA x : SeverityKey(x) = 2) \o SelectSeq(s, LAMBDA x : SeverityKey(x) = 3)

\* mutant: the patterns are ranked by severity before the cap
identify_recurring_patterns_BySeverity(es) ==
    IF Len(es) < 3 THEN <<>>
    ELSE Take(SortBySeverity(CollectPatterns(MealOrder(es), es)), 3)

\* mutant: the result is not capped
identify_recurring_patterns_NoCap(es) ==
    IF Len(es) < 3 THEN <<>> ELSE CollectPatterns(MealOrder(es), es)

identify_recurring_patterns(es) ==
    IF Len(es) < 3 THEN <<>> ELSE Take(CollectPatterns(MealOrder(es), es), 3)

(***************************************************************************)
(* generate_weekly_suggestion.  The texts are the source's without their   *)
(* leading emoji; NoSuggestion stands for the None it returns.             *)
(***************************************************************************)
NoSuggestion == "None"

TRACK_CARBS == "Try tracking carbs more consistently. It really helps identify patterns!"

LOG_BREAKFAST == "Try logging breakfast readings more consistently. Morning data helps spot patterns!"

HIGH_CARB_DINNERS == "High carb dinners might be causing evening spikes. Try smaller portions or earlier timing."

STRESS == "Stress might be affecting your glucose. Try some deep breathing when levels spike!"

GREAT_HABITS == "You're building great habits! Keep logging to unlock more personalized insights."

\* evening_entries and evening_with_carbs are non-empty,
\* evening_avg > GLUCOSE_HIGH_THRESHOLD and evening_avg_carbs > 70
IsHighCarbEvening(es) ==
    LET evening_entries ==
            SelectSeq(es, LAMBDA e : 18 <= e.timestamp.hour /\ e.timestamp.hour < 23)
        evening_with_carbs == SelectSeq(evening_entries, HasCarbs)
    IN  /\ evening_entries # <<>>
        /\ evening_with_carbs # <<>>
        /\ SumSeq(Glucose(evening_entries)) > GLUCOSE_HIGH_THRESHOLD * Len(evening_entries)
        /\ SumSeq(Carbs(evening_with_carbs)) > 70 * Len(evening_with_carbs)

\* len(stressed_highs) >= 3
IsStressedHigh(es) ==
    Len(SelectSeq(es, LAMBDA e : e.mood = "stressed"
                              /\ e.blood_glucose > GLUCOSE_HIGH_THRESHOLD)) >= 3

\* mutant: the stress rule is tested before the high-carb-dinner rule
generate_weekly_suggestion_StressFirst(es) ==
    LET morning_entries ==
            SelectSeq(es, LAMBDA e : 5 <= e.timestamp.hour /\ e.timestamp.hour < 12)
        entries_with_carbs == SelectSeq(es, HasCarbs)
    IN  IF Len(es) < 5 THEN NoSuggestion
        ELSE IF 10 * Len(entries_with_carbs) < 3 * Len(es) THEN TRACK_CARBS
        ELSE IF 10 * Len(morning_entries) < 2 * Len(es) THEN LOG_BREAKFAST
        ELSE IF IsStressedHigh(es) THEN STRESS
        ELSE IF IsHighCarbEvening(es) THEN HIGH_CARB_DINNERS
        ELSE GREAT_HABITS

\* mutant: the high-carb-dinner rule is tested before the morning-coverage rule
generate_weekly_suggestion_DinnerFirst(es) ==
    LET morning_entries ==
            SelectSeq(es, LAMBDA e : 5 <= e.timestamp.hour /\ e.timestamp.hour < 12)
        entries_with_carbs == SelectSeq(es, HasCarbs)
    IN  IF Len(es) < 5 THEN NoSuggestion
        ELSE IF 10 * Len(entries_with_carbs) < 3 * Len(es) THEN TRACK_CARBS
        ELSE IF IsHighCarbEvening(es) THEN HIGH_CARB_DINNERS
        ELSE IF 10 * Len(morning_entries) < 2 * Len(es) THEN LOG_BREAKFAST
        ELSE IF IsStressedHigh(es) THEN STRESS
        ELSE GREAT_HABITS

generate_weekly_suggestion(es) ==
    LET morning_entries ==
            SelectSeq(es, LAMBDA e : 5 <= e.timestamp.hour /\ e.timestamp.hour < 12)
        entries_with_carbs == SelectSeq(es, HasCarbs)
    IN  IF Len(es) < 5 THEN NoSuggestion
        \* len(entries_with_carbs) < len(entries) * 0.3
        ELSE IF 10 * Len(entries_with_carbs) < 3 * Len(es) THEN TRACK_CARBS
        \* len(morning_entries) < len(entries) * 0.2
        ELSE IF 10 * Len(morning_entries) < 2 * Len(es) THEN LOG_BREAKFAST
        ELSE IF IsHighCarbEvening(es) THEN HIGH_CARB_DINNERS
        ELSE IF IsStressedHigh(es) THEN STRESS
        ELSE GREAT_HABITS

(***************************************************************************)
(* generate_insights.  time_analysis maps period keys to period metrics;   *)
(* its values iterate in the order in which analyze_time_of_day inserts    *)
(* them.  An insight carries its type, severity, icon and title and the    *)
(* values interpolated into its message and action texts.                  *)
(***************************************************************************)
PeriodOrder == <<"morning", "afternoon", "evening", "night">>

\* mutant: periods with fewer than 3 records are kept
PeriodsWithData_NoMinCount(ta) ==
    LET keys == SelectSeq(PeriodOrder, LAMBDA k : k \in DOMAIN ta /\ ta[k].has_data)
    IN  [i \in 1..Len(keys) |-> ta[keys[i]]]

\* list(periods_with_data.values())
PeriodsWithData(ta) ==
    LET keys == SelectSeq(PeriodOrder,
                       LAMBDA k : k \in DOMAIN ta /\ ta[k].has_data /\ ta[k].count >= 3)
    IN  [i \in 1..Len(keys) |-> ta[keys[i]]]

\* min(values, key = time_in_range_pct): the first of the minimal elements
MinByTIR(values) ==
    values[CHOOSE i \in 1..Len(values) :
              /\ \A j \in 1..Len(values) :
                     values[i].time_in_range_pct <= values[j].time_in_range_pct
              /\ \A j \in 1..(i - 1) :
                     values[j].time_in_range_pct > values[i].time_in_range_pct]

\* max(values, key = time_in_range_pct): the first of the maximal elements
MaxByTIR(values) ==
    values[CHOOSE i \in 1..Len(values) :
              /\ \A j \in 1..Len(values) :
                     values[i].time_in_range_pct >= values[j].time_in_range_pct
              /\ \A j \in 1..(i - 1) :
                     values[j].time_in_range_pct < values[i].time_in_range_pct]

Insight(type, severity, icon, title, message) ==
    [type |-> type, severity |-> severity, icon |-> icon, title |-> title,
     message |-> message]

\* Rule 1 - worst time-of-day period
Rule1(ta) ==
    LET values == PeriodsWithData(ta)
        worst == MinByTIR(values)
    IN  IF values # <<>> /\ worst.time_in_range_pct < 550
        THEN <<Insight("worst_period", "warning", worst.icon,
                       <<worst.label, "Readings Need Attention">>,
                       <<worst.label, worst.time_range, worst.time_in_range_pct>>)>>
        ELSE <<>>

\* mutant: the best period is reported even when it is the worst one too
Rule2_NoDistinctCheck(ta) ==
    LET values == PeriodsWithData(ta)
        best == MaxByTIR(values)
    IN  IF values # <<>> /\ best.time_in_range_pct >= 700
        THEN <<Insight("best_period", "success", best.icon,
                       <<"Strong", best.label, "Control">>,
                       <<best.time_in_range_pct, best.label, best.time_range>>)>>
        ELSE <<>>

\* Rule 2 - best time-of-day period
Rule2(ta) ==
    LET values == PeriodsWithData(ta)
        worst == MinByTIR(values)
        best == MaxByTIR(values)
    IN  IF values # <<>> /\ best.time_in_range_pct >= 700 /\ best # worst
        THEN <<Insight("best_period", "success", best.icon,
                       <<"Strong", best.label, "Control">>,
                       <<best.time_in_range_pct, best.label, best.time_range>>)>>
        ELSE <<>>

\* mutant: a share of exactly 55% fires the rule
Rule3_AtLeast55(es) ==
    LET high_carb_entries == SelectSeq(es, LAMBDA e : e.carbs_grams # None /\ e.carbs_grams > 60)
        spike_after_high_carb ==
            SelectSeq(high_carb_entries, LAMBDA e : e.blood_glucose > GLUCOSE_TARGET_MAX)
    IN  IF /\ Len(high_carb_entries) >= 3
           /\ 100 * Len(spike_after_high_carb) >= 55 * Len(high_carb_entries)
        THEN <<Insight("carb_spike", "info", "bread", "High-Carb Meals May Cause Spikes",
                       <<RoundDiv(100 * Len(spike_after_high_carb),
                                  Len(high_carb_entries))>>)>>
        ELSE <<>>

\* Rule 3 - high-carb meals correlating with high glucose
Rule3(es) ==
    LET high_carb_entries == SelectSeq(es, LAMBDA e : e.carbs_grams # None /\ e.carbs_grams > 60)
        spike_after_high_carb ==
            SelectSeq(high_carb_entries, LAMBDA e : e.blood_glucose > GLUCOSE_TARGET_MAX)
    IN  IF /\ Len(high_carb_entries) >= 3
           \* spike_rate > 0.55
           /\ 100 * Len(spike_after_high_carb) > 55 * Len(high_carb_entries)
        THEN <<Insight("carb_spike", "info", "bread", "High-Carb Meals May Cause Spikes",
                       <<RoundDiv(100 * Len(spike_after_high_carb),
                                  Len(high_carb_entries))>>)>>
        ELSE <<>>

\* the glucose values of meal_groups[meal_type]
MealGlucose(es, meal_type) == Glucose(MealGroup(es, meal_type))

\* the body of the loop of rule 4: does this meal type get flagged
IsMealFlagged(es, meal_type) ==
    LET glucose_vals == MealGlucose(es, meal_type)
    IN  /\ ~(meal_type = "none" \/ Len(glucose_vals) < 5)
        \* high_pct >= 0.65
        /\ 100 * Len(SelectSeq(glucose_vals, IsHyper)) >= 65 * Len(glucose_vals)

\* mutant: the flagged meal type with the highest share of highs is reported
Rule4_WorstFlagged(es) ==
    LET flagged == SelectSeq(MealOrder(es), LAMBDA m : IsMealFlagged(es, m))
        Share(m) == (1000 * Len(SelectSeq(MealGlucose(es, m), IsHyper)))
                        \div Len(MealGlucose(es, m))
    IN  IF flagged # <<>>
        THEN LET meal_type ==
                     flagged[CHOOSE i \in 1..Len(flagged) :
                                /\ \A j \in 1..Len(flagged) :
                                       Share(flagged[i]) >= Share(flagged[j])
                                /\ \A j \in 1..(i - 1) :
                                       Share(flagged[j]) < Share(flagged[i])]
                 glucose_vals == MealGlucose(es, meal_type)
             IN  <<Insight("meal_pattern", "warning", "chart",
                           <<"Consistent Highs After", meal_type>>,
                           <<meal_type, RoundDiv(100 * Len(SelectSeq(glucose_vals, IsHyper)),
                                                 Len(glucose_vals))>>)>>
        ELSE <<>>

\* Rule 4 - consistent highs of one meal type: the first flagged one, then break
Rule4(es) ==
    LET flagged == SelectSeq(MealOrder(es), LAMBDA m : IsMealFlagged(es, m))
    IN  IF flagged # <<>>
        THEN LET meal_type == Head(flagged)
                 glucose_vals == MealGlucose(es, meal_type)
             IN  <<Insight("meal_pattern", "warning", "chart",
                           <<"Consistent Highs After", meal_type>>,
                           <<meal_type, RoundDiv(100 * Len(SelectSeq(glucose_vals, IsHyper)),
                                                 Len(glucose_vals))>>)>>
        ELSE <<>>

\* mutant: the count of low readings alone does not fire the rule
Rule5_PercentageOnly(es) ==
    LET hypo_count == Len(SelectSeq(Glucose(es), IsHypo))
        total == Len(es)
    IN  IF total > 0 /\ 100 * hypo_count >= 5 * total
        THEN <<Insight("hypo_frequency", "warning", "warning",
                       "Frequent Low Glucose Readings",
                       <<hypo_count, IF total > 0 THEN RoundPct(hypo_count, total) ELSE 0>>)>>
        ELSE <<>>

\* Rule 5 - frequent low glucose events
Rule5(es) ==
    LET hypo_count == Len(SelectSeq(Glucose(es), IsHypo))
        total == Len(es)
    IN  \* hypo_pct >= 5 or hypo_count >= 5
        IF (total > 0 /\ 100 * hypo_count >= 5 * total) \/ hypo_count >= 5
        THEN <<Insight("hypo_frequency", "warning", "warning",
                       "Frequent Low Glucose Readings",
                       <<hypo_count, IF total > 0 THEN RoundPct(hypo_count, total) ELSE 0>>)>>
        ELSE <<>>

\* mutant: the night period needs at least 3 records, as the periods of
\* rules 1 and 2 do
Rule6_MinCount(ta) ==
    IF /\ "night" \in DOMAIN ta
       /\ ta["night"].has_data
       /\ ta["night"].count >= 3
       /\ ta["night"].hypo_pct >= 80
    THEN <<Insight("night_hypo", "warning", "moon", "Night-Time Lows Detected",
                   <<ta["night"].hypo_pct, ta["night"].time_range>>)>>
    ELSE <<>>

\* Rule 6 - night-time hypos: time_analysis.get('night', {})
Rule6(ta) ==
    IF /\ "night" \in DOMAIN ta
       /\ ta["night"].has_data
       /\ ta["night"].hypo_pct >= 80
    THEN <<Insight("night_hypo", "warning", "moon", "Night-Time Lows Detected",
                   <<ta["night"].hypo_pct, ta["night"].time_range>>)>>
    ELSE <<>>

\* Rule 7 - stress correlating with elevated glucose
Rule7(es) ==
    LET stressed_entries == SelectSeq(es, LAMBDA e : e.mood = "stressed")
        Ss == SumSeq(Glucose(stressed_entries))
        ns == Len(stressed_entries)
        S == SumSeq(Glucose(es))
        n == Len(es)
    IN  IF /\ ns >= 3
           \* stressed_avg > overall_avg + 0.9, on binary floating point values
           /\ \/ Ss * n > S * ns + 9 * ns * n
              \/ Ss * n = S * ns + 9 * ns * n /\ float_ties
        THEN <<Insight("stress_correlation", "info", "heart",
                       "Stress and Glucose May Be Linked",
                       <<RoundDiv(Ss, ns), RoundDiv(Ss * n - S * ns, ns * n),
                         RoundDiv(S, n)>>)>>
        ELSE <<>>

SetMax(S) == CHOOSE x \in S : \A y \in S : y <= x

SetMin(S) == CHOOSE x \in S : \A y \in S : x <= y

\* mutant: the span is the difference of the last and the first day
Rule8_ExclusiveSpan(es) ==
    LET unique_days == Dates(es)
        span == SetMax(unique_days) - SetMin(unique_days)
        period_days == IF span > 1 THEN span ELSE 1
    IN  IF /\ Len(es) >= 14
           /\ 100 * Cardinality(unique_days) >= 80 * period_days
        THEN <<Insight("consistency", "success", "star", "Excellent Logging Consistency",
                       <<Cardinality(unique_days), period_days,
                         RoundDiv(100 * Cardinality(unique_days), period_days)>>)>>
        ELSE <<>>

\* Rule 8 - good logging consistency
Rule8(es) ==
    LET unique_days == Dates(es)
        span == SetMax(unique_days) - SetMin(unique_days) + 1
        period_days == IF span > 1 THEN span ELSE 1
    IN  IF /\ Len(es) >= 14
           \* logging_rate >= 0.80
           /\ 100 * Cardinality(unique_days) >= 80 * period_days
        THEN <<Insight("consistency", "success", "star", "Excellent Logging Consistency",
                       <<Cardinality(unique_days), period_days,
                         RoundDiv(100 * Cardinality(unique_days), period_days)>>)>>
        ELSE <<>>

\* mutant: the rules are evaluated whatever the number of records
EmittedInsights_NoFloor(es, ta) ==
    Rule1(ta) \o Rule2(ta) \o Rule3(es) \o Rule4(es) \o Rule5(es) \o Rule6(ta)
        \o Rule7(es) \o Rule8(es)

\* mutant: the floor is 6 records instead of 7
EmittedInsights_FloorSix(es, ta) ==
    IF Len(es) < 6 THEN <<>>
    ELSE Rule1(ta) \o Rule2(ta) \o Rule3(es) \o Rule4(es) \o Rule5(es) \o Rule6(ta)
             \o Rule7(es) \o Rule8(es)

\* the list insights before it is sorted
EmittedInsights(es, ta) ==
    IF Len(es) < 7 THEN <<>>
    ELSE Rule1(ta) \o Rule2(ta) \o Rule3(es) \o Rule4(es) \o Rule5(es) \o Rule6(ta)
             \o Rule7(es) \o Rule8(es)

\* mutant: the list is capped before it is sorted
SortAndCap_CapFirst(emitted_list) == SortBySeverity(Take(emitted_list, 5))

\* mutant: the list is cut to three
SortAndCap_CapThree(emitted_list) == Take(SortBySeverity(emitted_list), 3)

\* insights.sort(...); return insights[:5]
SortAndCap(emitted_list) == Take(SortBySeverity(emitted_list), 5)

generate_insights(es, ta) == SortAndCap(EmittedInsights(es, ta))

(***************************************************************************)
(* The web application.  One browser session talks to the application;     *)
(* the database holds the User table (users), the UserProgress table       *)
(* (progress, one row per user that has one) and the LogEntry table.  Of   *)
(* the LogEntry rows of a user the handlers' writes depend only on how     *)
(* many there are and on the date of the newest, which is what log_entries *)
(* keeps.  Dates are day numbers; today is the server's date.  response    *)
(* is what the last request was answered with, and streak_call the         *)
(* arguments of the call of update_streak that the last step made, if it   *)
(* made one.                                                               *)
(***************************************************************************)
NoUser == "none"

\* the last step did not call update_streak
NoCall == [user_id |-> NoUser, log_date |-> None]

StreakCall(user_id, log_date) == [user_id |-> user_id, log_date |-> log_date]

\* the account behind DEMO_USER_EMAIL
DEMO_USER == "demo"

Users == {DEMO_USER, "u1"}

\* the number of entries _seed_demo_data inserts: its generator is seeded
\* with 42 and draws the same numbers whatever the date
SeedCount == 174

\* UserProgress(user_id = ...): a new row with the columns' defaults, which
\* the table's declaration sets: the counters at 0 (update_streak adds to
\* them), no last_log_date (its "first ever log" case), no badge
NewProgress ==
    [ total_logs |-> 0, current_streak |-> 0, longest_streak |-> 0,
      last_log_date |-> None, badges_earned |-> {}, selected_avatar |-> "default",
      unlocked_avatars |-> {"default"} ]

\* the row ensure_demo_user creates
DemoProgress ==
    [ total_logs |-> 0, current_streak |-> 12, longest_streak |-> 21,
      last_log_date |-> None,
      badges_earned |-> {"first_log", "streak_3", "streak_7", "logs_50"},
      selected_avatar |-> "default", unlocked_avatars |-> {"default", "space"} ]

NoEntries == [count |-> 0, latest |-> None]

is_demo_mode == session.demo_mode

\* mutant: a log dated before the last one leaves the streak alone
StreakAfter_EarlierKeeps(p, log_date) ==
    LET counted == [p EXCEPT !.total_logs = @ + 1, !.last_log_date = log_date]
        days_since_last == log_date - p.last_log_date
    IN  IF p.last_log_date = None
        THEN [counted EXCEPT !.current_streak = 1, !.longest_streak = 1]
        ELSE IF days_since_last <= 0 THEN counted
        ELSE IF days_since_last = 1
        THEN [counted EXCEPT
                 !.current_streak = @ + 1,
                 !.longest_streak = IF p.current_streak + 1 > @
                                    THEN p.current_streak + 1 ELSE @]
        ELSE [counted EXCEPT !.current_streak = 1]

\* mutant: a consecutive day does not raise longest_streak
StreakAfter_LongestNotRaised(p, log_date) ==
    LET counted == [p EXCEPT !.total_logs = @ + 1, !.last_log_date = log_date]
        days_since_last == log_date - p.last_log_date
    IN  IF p.last_log_date = None
        THEN [counted EXCEPT !.current_streak = 1, !.longest_streak = 1]
        ELSE IF days_since_last = 0 THEN counted
        ELSE IF days_since_last = 1
        THEN [counted EXCEPT !.current_streak = @ + 1]
        ELSE [counted EXCEPT !.current_streak = 1]

\* update_streak on the row p of a user who has one
StreakAfter(p, log_date) ==
    LET counted == [p EXCEPT !.total_logs = @ + 1, !.last_log_date = log_date]
        days_since_last == log_date - p.last_log_date
    IN  IF p.last_log_date = None
        THEN [counted EXCEPT !.current_streak = 1, !.longest_streak = 1]
        ELSE IF days_since_last = 0 THEN counted
        ELSE IF days_since_last = 1
        THEN [counted EXCEPT
                 !.current_streak = @ + 1,
                 !.longest_streak = IF p.current_streak + 1 > @
                                    THEN p.current_streak + 1 ELSE @]
        ELSE [counted EXCEPT !.current_streak = 1]

\* update_streak(user_id, log_date): the UserProgress table afterwards
update_streak(table, user_id, log_date) ==
    IF user_id \notin DOMAIN table THEN table
    ELSE [table EXCEPT ![user_id] = StreakAfter(@, log_date)]

badge_conditions(p) ==
    << <<"first_log", p.total_logs >= 1>>,
       <<"streak_3", p.current_streak >= 3>>,
       <<"streak_7", p.current_streak >= 7>>,
       <<"streak_30", p.current_streak >= 30>>,
       <<"logs_50", p.total_logs >= 50>>,
       <<"logs_100", p.total_logs >= 100>> >>

\* check_and_award_badges(progress): the row afterwards
check_and_award_badges(p) ==
    LET conds == badge_conditions(p)
        newly_earned == {conds[i][1] : i \in {j \in 1..Len(conds) :
                            conds[j][2] /\ conds[j][1] \notin p.badges_earned}}
    IN  [p EXCEPT !.badges_earned = @ \cup newly_earned]

\* the rows of the user within the last `days` days, newest first: is there
\* one, as far as the dates tell
HasRecentEntries(table, user_id, days) ==
    /\ table[user_id].count > 0
    /\ today - table[user_id].latest <= days

InitAppState ==
    /\ users = {}
    /\ session = [user |-> NoUser, demo_mode |-> FALSE]
    /\ log_entries = [u \in Users |-> NoEntries]
    /\ progress = [u \in {} |-> NewProgress]
    /\ response = "none"
    /\ today = 1
    /\ streak_call = NoCall

(***************************************************************************)
(* Inputs.  A record collection is explored as a sequence of at most       *)
(* MaxBlocks blocks, a block being one entry repeated 1, 3 or 7 times, so  *)
(* that every order of up to MaxBlocks entries and the collections of 10   *)
(* and more entries that hit the percentage thresholds exactly are both    *)
(* reached.                                                                *)
(***************************************************************************)
Entry(d, h, g, m, md, c) ==
    [timestamp |-> [date |-> d, hour |-> h], blood_glucose |-> g,
     meal_type |-> m, mood |-> md, carbs_grams |-> c]

Repeats == {1, 3, 7}

RECURSIVE Expand(_)
Expand(blocks) ==
    IF blocks = <<>> THEN <<>>
    ELSE [i \in 1..Head(blocks).reps |-> Head(blocks).entry] \o Expand(Tail(blocks))

BlockSeqs(palette, maxBlocks) ==
    UNION {[1..n -> [entry : palette, reps : Repeats]] : n \in 0..maxBlocks}

Inputs(palette, maxBlocks) == {Expand(b) : b \in BlockSeqs(palette, maxBlocks)}

Seqs(palette, maxLen) == UNION {[1..n -> palette] : n \in 0..maxLen}

MetricPalette ==
    {Entry(1, 8, g, "breakfast", "calm", None) : g \in {35, 39, 70, 100, 101, 140}}

NoResult == [status |-> "not_called"]

InitResults ==
    /\ pc = "ready"
    /\ metrics = NoResult
    /\ periods = <<>>
    /\ patterns = <<>>
    /\ suggestion = "not_called"
    /\ emitted = <<>>
    /\ insights = <<>>

CallMetrics ==
    /\ pc = "ready"
    /\ metrics' = calculate_advanced_metrics(entries)
    /\ pc' = "metrics"
    /\ UNCHANGED <<entries, time_analysis, periods, patterns, suggestion, emitted, insights,
                   float_ties, appvars>>

InitMetrics ==
    /\ entries \in Inputs(MetricPalette, MaxBlocks)
    /\ time_analysis = <<>>
    /\ InitResults
    /\ float_ties = FALSE
    /\ InitAppState

NextMetrics == CallMetrics

SpecMetrics == InitMetrics /\ [][NextMetrics]_vars

(***************************************************************************)
(* SpecCarbs: calculate_advanced_metrics on record sets whose carbs are    *)
(* untracked, tracked as 0 or tracked as a positive number, over two       *)
(* calendar days.                                                          *)
(***************************************************************************)
CarbPalette ==
    { Entry(d, 8, 70, "breakfast", "calm", c) : d \in {1, 2}, c \in {None, 0, 45, 50} }

InitCarbs ==
    /\ entries \in Seqs(CarbPalette, MaxCarbLen)
    /\ time_analysis = <<>>
    /\ InitResults
    /\ float_ties = FALSE
    /\ InitAppState

SpecCarbs == InitCarbs /\ [][NextMetrics]_vars

(***************************************************************************)
(* SpecTime: analyze_time_of_day on every sequence of at most MaxTimeLen   *)
(* entries whose hours sit on both sides of every window boundary.         *)
(***************************************************************************)
TimePalette ==
    { Entry(1, h, p[1], "none", "calm", p[2]) :
        h \in {0, 4, 5, 11, 12, 17, 18, 22, 23},
        p \in {<<35, None>>, <<70, 45>>, <<120, 80>>} }

CallTimeOfDay ==
    /\ pc = "ready"
    /\ periods' = analyze_time_of_day(entries)
    /\ pc' = "time"
    /\ UNCHANGED <<entries, time_analysis, metrics, patterns, suggestion, emitted, insights,
                   float_ties, appvars>>

InitTime ==
    /\ entries \in Seqs(TimePalette, MaxTimeLen)
    /\ time_analysis = <<>>
    /\ InitResults
    /\ float_ties = FALSE
    /\ InitAppState

NextTime == CallTimeOfDay

SpecTime == InitTime /\ [][NextTime]_vars

(***************************************************************************)
(* SpecPeriodCarbs: analyze_time_of_day on record sets that leave periods  *)
(* empty and whose carbs are untracked, tracked as 0 or tracked as a       *)
(* positive number.  The readings are multiples of 0.4, so that no mean    *)
(* of up to four of them lies halfway between two tenths, where the        *)
(* rounding of the binary float decides.                                   *)
(***************************************************************************)
PeriodCarbPalette ==
    { Entry(1, h, p[1], "none", "calm", p[2]) :
        h \in {4, 8, 19},
        p \in {<<36, None>>, <<72, 0>>, <<100, 45>>, <<120, 80>>} }

InitPeriodCarbs ==
    /\ entries \in Seqs(PeriodCarbPalette, MaxPeriodLen)
    /\ time_analysis = <<>>
    /\ InitResults
    /\ float_ties = FALSE
    /\ InitAppState

SpecPeriodCarbs == InitPeriodCarbs /\ [][NextTime]_vars

(***************************************************************************)
(* SpecPatternRules: identify_recurring_patterns on record sets of two     *)
(* meal categories whose readings and carbs sit on both sides of every     *)
(* threshold of the per-category rules.  A block repeats an entry once or  *)
(* twice.                                                                  *)
(* SpecPatternOrder: record sets of up to five meal categories, to reach   *)
(* more than three pattern-producing categories.                           *)
(***************************************************************************)
RECURSIVE ExpandN(_)
ExpandN(blocks) ==
    IF blocks = <<>> THEN <<>>
    ELSE [i \in 1..Head(blocks)[2] |-> Head(blocks)[1]] \o ExpandN(Tail(blocks))

BlockInputs(palette, reps, maxBlocks) ==
    {ExpandN(b) : b \in UNION {[1..n -> palette \X reps] : n \in 0..maxBlocks}}

RulePalette ==
    { Entry(1, 12, p[1], m, "calm", p[2]) :
        m \in {"lunch", "dinner"},
        p \in {<<30, None>>, <<35, None>>, <<70, None>>, <<111, 80>>,
               <<115, 80>>, <<115, 40>>, <<130, None>>} }

OrderPalette ==
    { Entry(1, 12, 70, "breakfast", "calm", None),
      Entry(1, 12, 30, "lunch", "calm", None),
      Entry(1, 12, 35, "dinner", "calm", None),
      Entry(1, 12, 120, "snack", "calm", None),
      Entry(1, 12, 30, "none", "calm", None) }

CallPatterns ==
    /\ pc = "ready"
    /\ patterns' = identify_recurring_patterns(entries)
    /\ pc' = "patterns"
    /\ UNCHANGED <<entries, time_analysis, metrics, periods, suggestion, emitted, insights,
                   float_ties, appvars>>

InitPatternRules ==
    /\ entries \in BlockInputs(RulePalette, {1, 2}, MaxRuleBlocks)
    /\ time_analysis = <<>>
    /\ InitResults
    /\ float_ties = FALSE
    /\ InitAppState

InitPatternOrder ==
    /\ entries \in BlockInputs(OrderPalette, {1, 2}, MaxOrderBlocks)
    /\ time_analysis = <<>>
    /\ InitResults
    /\ float_ties = FALSE
    /\ InitAppState

NextPatterns == CallPatterns

SpecPatternRules == InitPatternRules /\ [][NextPatterns]_vars

SpecPatternOrder == InitPatternOrder /\ [][NextPatterns]_vars

(***************************************************************************)
(* SpecSuggest: generate_weekly_suggestion on record sets whose hours sit  *)
(* on both sides of the morning and evening windows, with readings and     *)
(* carbs on and above the thresholds of rules 3 and 4.                     *)
(***************************************************************************)
SuggestPalette ==
    { Entry(1, 5, 70, "breakfast", "calm", 50),
      Entry(1, 11, 70, "breakfast", "calm", None),
      Entry(1, 12, 70, "lunch", "calm", 50),
      Entry(1, 4, 120, "none", "stressed", None),
      Entry(1, 18, 120, "dinner", "calm", 90),
      Entry(1, 22, 111, "dinner", "calm", 70),
      Entry(1, 23, 120, "snack", "calm", 90),
      Entry(1, 17, 120, "snack", "stressed", 50),
      Entry(1, 12, 111, "lunch", "stressed", 50),
      Entry(1, 22, 70, "dinner", "calm", 20) }

CallSuggestion ==
    /\ pc = "ready"
    /\ suggestion' = generate_weekly_suggestion(entries)
    /\ pc' = "suggest"
    /\ UNCHANGED <<entries, time_analysis, metrics, periods, patterns, emitted, insights,
                   float_ties, appvars>>

InitSuggest ==
    /\ entries \in Inputs(SuggestPalette, MaxSuggestBlocks)
    /\ time_analysis = <<>>
    /\ InitResults
    /\ float_ties = FALSE
    /\ InitAppState

NextSuggest == CallSuggestion

SpecSuggest == InitSuggest /\ [][NextSuggest]_vars

(***************************************************************************)
(* SpecDinner: generate_weekly_suggestion on record sets made of the       *)
(* dinner record of the scenario (hour 19, glucose 13.0, carbs 90) and of  *)
(* morning records with and without tracked carbs, in every order.         *)
(***************************************************************************)
DinnerRecord == Entry(1, 19, 130, "dinner", "calm", 90)

DinnerPalette ==
    { DinnerRecord,
      Entry(1, 8, 70, "breakfast", "calm", 30),
      Entry(1, 8, 70, "breakfast", "calm", None) }

InitDinner ==
    /\ entries \in Seqs(DinnerPalette, MaxDinnerLen)
    /\ time_analysis = <<>>
    /\ InitResults
    /\ float_ties = FALSE
    /\ InitAppState

SpecDinner == InitDinner /\ [][NextSuggest]_vars

(***************************************************************************)
(* SpecInsights: generate_insights on record sets of up to 21 entries,     *)
(* with the period metrics that analyze_time_of_day computes from the      *)
(* same records or with period metrics that are independent of them.       *)
(***************************************************************************)
InsightPalette ==
    { Entry(1, 19, 120, "dinner", "stressed", 80),
      Entry(1, 8, 70, "breakfast", "calm", None),
      Entry(1, 2, 35, "none", "calm", None),
      Entry(5, 13, 120, "lunch", "calm", 40),
      Entry(2, 19, 95, "dinner", "stressed", 70) }

\* period metrics as analyze_time_of_day shapes them, with given numbers
GivenPeriod(period_key, count, tir, hypo) ==
    [ label |-> period_definitions[period_key].label,
      time_range |-> period_definitions[period_key].time_range,
      icon |-> period_definitions[period_key].icon,
      count |-> count, avg_glucose |-> 70, time_in_range_pct |-> tir,
      hypo_pct |-> hypo, hyper_pct |-> 1000 - tir - hypo, avg_carbs |-> None,
      has_data |-> TRUE ]

EmptyMapping == [k \in {} |-> k]

GivenMappings ==
    { EmptyMapping,
      [k \in {"evening"} |-> GivenPeriod(k, 3, 500, 0)],
      [k \in {"morning", "afternoon", "night"} |->
          IF k = "morning" THEN GivenPeriod(k, 3, 400, 0)
          ELSE IF k = "afternoon" THEN GivenPeriod(k, 5, 900, 0)
          ELSE GivenPeriod(k, 1, 0, 1000)] }

\* mutant: generate_insights reverses the caller's list in place to walk it
\* oldest first
CallInsights_ReversesRecords ==
    /\ pc = "ready"
    /\ entries' = [i \in 1..Len(entries) |-> entries[Len(entries) + 1 - i]]
    /\ emitted' = EmittedInsights(entries, time_analysis)
    /\ insights' = generate_insights(entries, time_analysis)
    /\ pc' = "insights"
    /\ UNCHANGED <<time_analysis, metrics, periods, patterns, suggestion, float_ties, appvars>>

CallInsights ==
    /\ pc = "ready"
    /\ emitted' = EmittedInsights(entries, time_analysis)
    /\ insights' = generate_insights(entries, time_analysis)
    /\ pc' = "insights"
    /\ UNCHANGED <<entries, time_analysis, metrics, periods, patterns, suggestion, float_ties, appvars>>

InitInsights ==
    /\ entries \in Inputs(InsightPalette, MaxInsightBlocks)
    /\ time_analysis \in GivenMappings \cup {analyze_time_of_day(entries)}
    /\ InitResults
    /\ float_ties \in BOOLEAN
    /\ InitAppState

NextInsights == CallInsights

SpecInsights == InitInsights /\ [][NextInsights]_vars

(***************************************************************************)
(* SpecMeals: generate_insights, with an empty period mapping, on record   *)
(* sets of the meal categories none, lunch and dinner made of blocks of 2  *)
(* or 5 equal records, at or above the in-range ceiling.                   *)
(***************************************************************************)
MealPalette ==
    { Entry(1, 12, g, m, "calm", None) :
        g \in {100, 120}, m \in {"none", "lunch", "dinner"} }

InitMeals ==
    /\ entries \in BlockInputs(MealPalette, {2, 5}, MaxMealBlocks)
    /\ time_analysis = EmptyMapping
    /\ InitResults
    /\ float_ties = FALSE
    /\ InitAppState

SpecMeals == InitMeals /\ [][NextInsights]_vars

(***************************************************************************)
(* SpecHypo: generate_insights, with an empty period mapping, on record    *)
(* sets of readings of 3.5 and 3.9 made of blocks of 1, 4, 19 or 96 equal  *)
(* records and of at most MaxHypoLen records in all, so that 1 low reading  *)
(* in 20 and in 21 records and 4 and 5 low readings in 100 and more        *)
(* records are reached.                                                    *)
(***************************************************************************)
HypoPalette == {Entry(1, 12, g, "none", "calm", None) : g \in {35, 39}}

InitHypo ==
    /\ entries \in {es \in BlockInputs(HypoPalette, {1, 4, 19, 96}, MaxHypoBlocks) :
                        Len(es) <= MaxHypoLen}
    /\ time_analysis = EmptyMapping
    /\ InitResults
    /\ float_ties = FALSE
    /\ InitAppState

SpecHypo == InitHypo /\ [][NextInsights]_vars

(***************************************************************************)
(* SpecNight: generate_insights on record sets of night and evening        *)
(* records, with a period mapping that has no night entry, an empty night  *)
(* period, a night period of 1 or 3 records with a low-reading share       *)
(* around 8%, or the mapping that analyze_time_of_day computes.            *)
(***************************************************************************)
NightPalette ==
    { Entry(1, 2, 35, "none", "calm", None),
      Entry(1, 23, 70, "none", "calm", None),
      Entry(1, 19, 70, "dinner", "calm", None) }

NightMappings ==
    { EmptyMapping,
      [k \in {"evening"} |-> GivenPeriod(k, 3, 500, 0)],
      [k \in {"night"} |-> PeriodMetrics(k, <<>>)] }
    \cup { [k \in {"night"} |-> GivenPeriod(k, count, 200, hypo)] :
              count \in {1, 3}, hypo \in {0, 79, 80, 1000 - 200} }

InitNight ==
    /\ entries \in Inputs(NightPalette, MaxNightBlocks)
    /\ time_analysis \in NightMappings \cup {analyze_time_of_day(entries)}
    /\ InitResults
    /\ float_ties = FALSE
    /\ InitAppState

SpecNight == InitNight /\ [][NextInsights]_vars

(***************************************************************************)
(* SpecCarbSpike: generate_insights, with an empty period mapping, on      *)
(* record sets with carbs untracked, 60 or 61 and readings of 10.0 or      *)
(* 10.1, made of blocks of 1, 9 or 11 equal records, so that 11 and 12     *)
(* readings above 10.0 among 20 and 21 high-carb records are reached.      *)
(***************************************************************************)
CarbSpikePalette ==
    {Entry(1, 12, g, "none", "calm", c) : g \in {100, 101}, c \in {None, 60, 61}}

InitCarbSpike ==
    /\ entries \in BlockInputs(CarbSpikePalette, {1, 9, 11}, MaxSpikeBlocks)
    /\ time_analysis = EmptyMapping
    /\ InitResults
    /\ float_ties = FALSE
    /\ InitAppState

SpecCarbSpike == InitCarbSpike /\ [][NextInsights]_vars

(***************************************************************************)
(* SpecConsistency: generate_insights, with an empty period mapping, on    *)
(* record sets dated on days 1, 2, 3 and 5 in any order, made of blocks of *)
(* 6 or 7 records of one day, so that 13 and 14 records and 4 days logged  *)
(* out of 5, 3 out of 4 and 2 out of 3 are reached.                        *)
(***************************************************************************)
ConsistencyPalette == {Entry(d, 12, 70, "none", "calm", None) : d \in {1, 2, 3, 5}}

InitConsistency ==
    /\ entries \in BlockInputs(ConsistencyPalette, {6, 7}, MaxDayBlocks)
    /\ time_analysis = EmptyMapping
    /\ InitResults
    /\ float_ties = FALSE
    /\ InitAppState

SpecConsistency == InitConsistency /\ [][NextInsights]_vars

(***************************************************************************)
(* SpecStress: generate_insights, with an empty period mapping, on record  *)
(* sets of stressed readings of 8.3 and 8.4 and calm readings of 7.1 and   *)
(* 8.4, made of blocks of 1, 3 or 9 equal records, so that 2 and 3         *)
(* stressed records and a stressed average 0.9 above the overall average   *)
(* (3 records at 8.3 with 9 at 7.1) are reached.                           *)
(***************************************************************************)
StressPalette ==
    { Entry(1, 12, 83, "none", "stressed", None),
      Entry(1, 12, 84, "none", "stressed", None),
      Entry(1, 12, 71, "none", "calm", None),
      Entry(1, 12, 84, "none", "calm", None) }

InitStress ==
    /\ entries \in BlockInputs(StressPalette, {1, 3, 9}, MaxStressBlocks)
    /\ time_analysis = EmptyMapping
    /\ InitResults
    /\ float_ties \in BOOLEAN
    /\ InitAppState

SpecStress == InitStress /\ [][NextInsights]_vars

(***************************************************************************)
(* SpecCalls: the five functions called again and again, in any order, on  *)
(* a record collection that grows by one record at a time (newest first,   *)
(* as the analytics route orders it) and with a period mapping that is     *)
(* either the one analyze_time_of_day computed or a given one.  The        *)
(* results are locals of the route and are gone when it returns.           *)
(***************************************************************************)
CallPalette ==
    { Entry(1, 2, 35, "none", "stressed", None),
      Entry(2, 19, 130, "dinner", "calm", 90) }

InitCalls ==
    /\ entries = <<>>
    /\ time_analysis = EmptyMapping
    /\ InitResults
    /\ float_ties \in BOOLEAN
    /\ InitAppState

AddRecord ==
    /\ pc = "ready"
    /\ Len(entries) < MaxCallLen
    /\ \E e \in CallPalette : entries' = <<e>> \o entries
    /\ UNCHANGED <<time_analysis, pc, metrics, periods, patterns, suggestion, emitted,
                   insights, float_ties, appvars>>

SetMapping ==
    /\ pc = "ready"
    /\ time_analysis' \in (GivenMappings \cup {analyze_time_of_day(entries)}) \ {time_analysis}
    /\ UNCHANGED <<entries, pc, metrics, periods, patterns, suggestion, emitted, insights,
                   float_ties, appvars>>

Return ==
    /\ pc # "ready"
    /\ pc' = "ready"
    /\ metrics' = NoResult
    /\ periods' = <<>>
    /\ patterns' = <<>>
    /\ suggestion' = "not_called"
    /\ emitted' = <<>>
    /\ insights' = <<>>
    /\ UNCHANGED <<entries, time_analysis, float_ties, appvars>>

NextCalls ==
    \/ CallMetrics
    \/ CallTimeOfDay
    \/ CallPatterns
    \/ CallSuggestion
    \/ CallInsights
    \/ AddRecord
    \/ SetMapping
    \/ Return

SpecCalls == InitCalls /\ [][NextCalls]_vars

(***************************************************************************)
(* SpecApp: the requests of one browser session, in any order, and the     *)
(* passing of days.  A form field is blank, a text that is no number, or   *)
(* a number (glucose in tenths of mmol/L).                                 *)
(***************************************************************************)
Blank == [kind |-> "blank", value |-> 0]

Text == [kind |-> "text", value |-> 0]

Num(n) == [kind |-> "number", value |-> n]

GlucoseFields == {Blank, Text, Num(19), Num(20), Num(300), Num(301)}

MoodFields == {"", "calm"}

CarbFields == {Blank, Text, Num(-1), Num(0), Num(500), Num(501)}

AvatarFields == {"", "default", "space"}

\* the most total_logs a user's row is driven to
LogsCap(user_id) == IF user_id = DEMO_USER THEN SeedCount + MaxLogs ELSE MaxLogs

CanCount(user_id) ==
    user_id \in DOMAIN progress => progress[user_id].total_logs < LogsCap(user_id)

\* "if not progress: progress = UserProgress(user_id = user_id)"
WithProgress(table, user_id) ==
    IF user_id \in DOMAIN table THEN table ELSE (user_id :> NewProgress) @@ table

\* @login_required on a session that is not logged in
Unauthenticated ==
    /\ session.user = NoUser
    /\ response' = "redirect_login"
    /\ streak_call' = NoCall
    /\ UNCHANGED <<users, session, log_entries, progress, today, analyticsvars>>

\* GET /demo: ensure_demo_user, _seed_demo_data, login_user, the demo flag
Demo ==
    LET created == IF DEMO_USER \in users THEN progress
                   ELSE (DEMO_USER :> DemoProgress) @@ progress
        seeds == log_entries[DEMO_USER].count < 10
    IN  /\ users' = users \cup {DEMO_USER}
        /\ log_entries' =
               IF seeds
               THEN [log_entries EXCEPT ![DEMO_USER] =
                        [count |-> @.count + SeedCount, latest |-> today]]
               ELSE log_entries
        /\ progress' =
               IF seeds /\ DEMO_USER \in DOMAIN created
               THEN [created EXCEPT ![DEMO_USER] =
                        [@ EXCEPT !.total_logs = SeedCount, !.last_log_date = today]]
               ELSE created
        /\ session' = [user |-> DEMO_USER, demo_mode |-> TRUE]
        /\ response' = "redirect_index"
        /\ streak_call' = NoCall
        /\ UNCHANGED <<today, analyticsvars>>

\* POST /register
Register ==
    \E u \in Users, valid \in BOOLEAN :
        /\ IF session.user # NoUser
           THEN /\ response' = "redirect_index"
                /\ UNCHANGED <<users, progress, session>>
           ELSE IF ~valid \/ u = DEMO_USER \/ u \in users
           THEN /\ response' = "register_error"
                /\ UNCHANGED <<users, progress, session>>
           ELSE /\ users' = users \cup {u}
                /\ progress' = (u :> NewProgress) @@ progress
                /\ session' = [session EXCEPT !.user = u]
                /\ response' = "redirect_index"
        /\ streak_call' = NoCall
        /\ UNCHANGED <<log_entries, today, analyticsvars>>

\* POST /login
Login ==
    \E u \in Users, password_ok \in BOOLEAN :
        /\ IF session.user # NoUser
           THEN /\ response' = "redirect_index"
                /\ UNCHANGED session
           ELSE IF u \in users /\ password_ok
           THEN /\ session' = [session EXCEPT !.user = u]
                /\ response' = "redirect_index"
           ELSE /\ response' = "login_error"
                /\ UNCHANGED session
        /\ streak_call' = NoCall
        /\ UNCHANGED <<users, log_entries, progress, today, analyticsvars>>

\* GET /logout
Logout ==
    /\ session.user # NoUser
    /\ session' = [user |-> NoUser, demo_mode |-> FALSE]
    /\ response' = "redirect_login"
    /\ streak_call' = NoCall
    /\ UNCHANGED <<users, log_entries, progress, today, analyticsvars>>

\* mutant: the dashboard counts the streak in demo mode too
Index_NoDemoCheck ==
    LET user_id == session.user
        with_row == WithProgress(progress, user_id)
        counts == /\ HasRecentEntries(log_entries, user_id, 30)
                  /\ log_entries[user_id].latest = today
    IN  /\ session.user # NoUser
        /\ counts => CanCount(user_id)
        /\ progress' = IF counts THEN update_streak(with_row, user_id, today) ELSE with_row
        /\ streak_call' = IF counts THEN StreakCall(user_id, today) ELSE NoCall
        /\ response' = "render_index"
        /\ UNCHANGED <<users, session, log_entries, today, analyticsvars>>

\* GET /
Index ==
    LET user_id == session.user
        with_row == WithProgress(progress, user_id)
        counts == /\ HasRecentEntries(log_entries, user_id, 30)
                  /\ ~is_demo_mode
                  /\ log_entries[user_id].latest = today
    IN  /\ session.user # NoUser
        /\ counts => CanCount(user_id)
        /\ progress' = IF counts THEN update_streak(with_row, user_id, today) ELSE with_row
        /\ streak_call' = IF counts THEN StreakCall(user_id, today) ELSE NoCall
        /\ response' = "render_index"
        /\ UNCHANGED <<users, session, log_entries, today, analyticsvars>>

\* GET /log
LogGet ==
    /\ session.user # NoUser
    /\ response' = "render_log"
    /\ streak_call' = NoCall
    /\ UNCHANGED <<users, session, log_entries, progress, today, analyticsvars>>

\* the form of POST /log passes the checks of log_entry
ValidLog(glucose_level, mood, carbs_grams) ==
    /\ glucose_level.kind = "number"
    /\ mood # ""
    /\ ~(glucose_level.value < 20 \/ glucose_level.value > 300)
    /\ carbs_grams.kind # "text"
    /\ carbs_grams.kind = "number" =>
           ~(carbs_grams.value < 0 \/ carbs_grams.value > 500)

\* POST /log
LogPost ==
    \E glucose_level \in GlucoseFields, mood \in MoodFields, carbs_grams \in CarbFields :
        LET user_id == session.user
            counted == update_streak(progress, user_id, today)
        IN  /\ session.user # NoUser
            /\ IF is_demo_mode
               THEN /\ response' = "log_blocked"
                    /\ streak_call' = NoCall
                    /\ UNCHANGED <<log_entries, progress>>
               ELSE IF ~ValidLog(glucose_level, mood, carbs_grams)
               THEN /\ response' = "log_error"
                    /\ streak_call' = NoCall
                    /\ UNCHANGED <<log_entries, progress>>
               ELSE /\ CanCount(user_id)
                    /\ log_entries' =
                           [log_entries EXCEPT ![user_id] =
                               [count |-> @.count + 1, latest |-> today]]
                    /\ progress' =
                           IF user_id \in DOMAIN counted
                           THEN [counted EXCEPT ![user_id] = check_and_award_badges(@)]
                           ELSE counted
                    /\ streak_call' = StreakCall(user_id, today)
                    /\ response' = "entry_logged"
            /\ UNCHANGED <<users, session, today, analyticsvars>>

\* GET /export/csv?days=...
ExportCsv ==
    \E days \in {1, 30} :
        /\ session.user # NoUser
        /\ response' =
               IF is_demo_mode THEN "export_blocked"
               ELSE IF ~HasRecentEntries(log_entries, session.user, days)
               THEN "export_no_data"
               ELSE "csv"
        /\ streak_call' = NoCall
        /\ UNCHANGED <<users, session, log_entries, progress, today, analyticsvars>>

\* GET /avatar
AvatarGet ==
    /\ session.user # NoUser
    /\ progress' = WithProgress(progress, session.user)
    /\ response' = "render_avatar"
    /\ streak_call' = NoCall
    /\ UNCHANGED <<users, session, log_entries, today, analyticsvars>>

\* POST /avatar/update
update_avatar ==
    \E avatar_id \in AvatarFields :
        /\ session.user # NoUser
        /\ IF is_demo_mode
           THEN /\ response' = "avatar_blocked"
                /\ UNCHANGED progress
           ELSE IF avatar_id # "" /\ session.user \in DOMAIN progress
           THEN /\ progress' = [progress EXCEPT ![session.user].selected_avatar = avatar_id]
                /\ response' = "avatar_updated"
           ELSE /\ response' = "redirect_avatar"
                /\ UNCHANGED progress
        /\ streak_call' = NoCall
        /\ UNCHANGED <<users, session, log_entries, today, analyticsvars>>

\* GET /settings
SettingsGet ==
    /\ session.user # NoUser
    /\ progress' = WithProgress(progress, session.user)
    /\ response' = "render_settings"
    /\ streak_call' = NoCall
    /\ UNCHANGED <<users, session, log_entries, today, analyticsvars>>

\* POST /settings
SettingsPost ==
    /\ session.user # NoUser
    /\ response' = IF is_demo_mode THEN "settings_blocked" ELSE "settings_updated"
    /\ streak_call' = NoCall
    /\ UNCHANGED <<users, session, log_entries, progress, today, analyticsvars>>

\* midnight passes
NextDay ==
    /\ today < MaxDay
    /\ today' = today + 1
    /\ streak_call' = NoCall
    /\ UNCHANGED <<users, session, log_entries, progress, response, analyticsvars>>

InitApp ==
    /\ entries = <<>>
    /\ time_analysis = EmptyMapping
    /\ InitResults
    /\ float_ties = FALSE
    /\ InitAppState

NextApp ==
    \/ Unauthenticated
    \/ Demo
    \/ Register
    \/ Login
    \/ Logout
    \/ Index
    \/ LogGet
    \/ LogPost
    \/ ExportCsv
    \/ AvatarGet
    \/ update_avatar
    \/ SettingsGet
    \/ SettingsPost
    \/ NextDay

SpecApp == InitApp /\ [][NextApp]_vars

(***************************************************************************)
(* SpecStreak: calls of update_streak, for any user and with any sequence  *)
(* of log dates, on a UserProgress table in which a user has no row or    *)
(* the row the application gives it: a new row for a registered user, the  *)
(* row of ensure_demo_user, dated by _seed_demo_data, for the demo user.   *)
(***************************************************************************)
StreakDates == 1..MaxStreakDate

StartRows ==
    {NewProgress}
        \cup {[DemoProgress EXCEPT !.total_logs = SeedCount, !.last_log_date = d] :
                 d \in StreakDates}

InitStreak ==
    /\ entries = <<>>
    /\ time_analysis = EmptyMapping
    /\ InitResults
    /\ float_ties = FALSE
    /\ session = [user |-> NoUser, demo_mode |-> FALSE]
    /\ log_entries = [u \in Users |-> NoEntries]
    /\ \E rows \in SUBSET Users :
           progress \in {t \in [rows -> StartRows] :
                            \A u \in rows : (t[u] = NewProgress) <=> (u # DEMO_USER)}
    /\ users = DOMAIN progress
    /\ response = "none"
    /\ today = 1
    /\ streak_call = NoCall

\* update_streak(user_id, log_date)
CallUpdateStreak ==
    \E user_id \in Users, log_date \in StreakDates :
        /\ streak_call = NoCall
        /\ user_id \in DOMAIN progress =>
               progress[user_id].total_logs % SeedCount < MaxStreakCalls
        /\ progress' = update_streak(progress, user_id, log_date)
        /\ streak_call' = StreakCall(user_id, log_date)
        /\ UNCHANGED <<users, session, log_entries, response, today, analyticsvars>>

\* the call has returned
ReturnStreak ==
    /\ streak_call # NoCall
    /\ streak_call' = NoCall
    /\ UNCHANGED <<users, session, log_entries, progress, response, today, analyticsvars>>

NextStreak == CallUpdateStreak \/ ReturnStreak

SpecStreak == InitStreak /\ [][NextStreak]_vars

(***************************************************************************)
(* Properties of calculate_advanced_metrics, checked under SpecMetrics.    *)
(***************************************************************************)
Called(f) == pc = f

CountIdx(es, P(_)) == Cardinality({i \in 1..Len(es) : P(es[i])})

Abs(x) == IF x < 0 THEN -x ELSE x

\* C2: every reading of a non-empty record set is in exactly one of in-range,
\* below-range and above-range; the in-range count plus hypo_events plus
\* hyper_events is total_readings, and the three rounded percentages sum to
\* 100 within the rounding tolerance of one tenth of a percent.
C2_RangePartition ==
    (Called("metrics") /\ entries # <<>>) =>
        LET inRange(e) == IsInRange(e.blood_glucose)
            below(e) == e.blood_glucose < GLUCOSE_TARGET_MIN
            above(e) == e.blood_glucose > GLUCOSE_TARGET_MAX
        IN  /\ metrics.total_readings = Len(entries)
            /\ metrics.hypo_events = CountIdx(entries, below)
            /\ metrics.hyper_events = CountIdx(entries, above)
            /\ CountIdx(entries, inRange) + metrics.hypo_events + metrics.hyper_events
                   = metrics.total_readings
            /\ Abs(metrics.time_in_range_pct + metrics.time_below_range_pct
                   + metrics.time_above_range_pct - 1000) <= 1

C2_Witness ==
    /\ Called("metrics")
    /\ entries # <<>>
    /\ metrics.hypo_events > 0
    /\ metrics.hyper_events > 0
    /\ metrics.hypo_events + metrics.hyper_events < metrics.total_readings
    /\ metrics.time_in_range_pct + metrics.time_below_range_pct
           + metrics.time_above_range_pct # 1000

\* The claims speak of the in-range percentage and the coefficient of
\* variation of a record set; both are taken exactly (unrounded).
InRangeCount(es) == CountIdx(es, LAMBDA e : 39 <= e.blood_glucose /\ e.blood_glucose <= 100)

\* in-range% >= pct
ClaimTIRAtLeast(es, pct) == 100 * InRangeCount(es) >= pct * Len(es)

\* CV < pct, the CV of a single reading being 0
ClaimCVBelow(es, pct) ==
    FracLess(CV2Num(Glucose(es)), CV2Den(Glucose(es)), pct * pct, 10000)

\* C3: for a non-empty record set the status is 'excellent' when in-range%
\* >= 70 and CV < 36, otherwise 'good' when in-range% >= 50 and CV < 50,
\* otherwise 'needs_attention'; no other status is returned.
C3_StatusChain ==
    (Called("metrics") /\ entries # <<>>) =>
        /\ metrics.status \in {"excellent", "good", "needs_attention"}
        /\ (metrics.status = "excellent") <=>
               (ClaimTIRAtLeast(entries, 70) /\ ClaimCVBelow(entries, 36))
        /\ (metrics.status = "good") <=>
               /\ ~(ClaimTIRAtLeast(entries, 70) /\ ClaimCVBelow(entries, 36))
               /\ ClaimTIRAtLeast(entries, 50) /\ ClaimCVBelow(entries, 50)

\* exactly 70% in range, low variability: the boundary of 'excellent'
C3_Witness ==
    /\ Called("metrics")
    /\ Len(entries) = 10
    /\ InRangeCount(entries) = 7
    /\ metrics.status = "excellent"

Rank(status) ==
    CASE status = "needs_attention" -> 0
      [] status = "good" -> 1
      [] status = "excellent" -> 2

\* The record sets B against which the record set A of the call is compared.
\* A summary is the in-range count, the size, the squared CV and the status.
RefInputs == Inputs(MetricPalette, 2) \ {<<>>}

RefSummaries ==
    { [k |-> InRangeCount(b), n |-> Len(b),
       num |-> CV2Num(Glucose(b)), den |-> CV2Den(Glucose(b)),
       status |-> calculate_advanced_metrics(b).status] : b \in RefInputs }

\* C4: for non-empty record sets A and B, if B's in-range% is >= A's and B's
\* CV is <= A's then B's status is not worse than A's.
C4_StatusMonotonic ==
    (Called("metrics") /\ entries # <<>>) =>
        LET k == InRangeCount(entries)
            n == Len(entries)
            num == CV2Num(Glucose(entries))
            den == CV2Den(Glucose(entries))
            rank == Rank(metrics.status)
        IN  \A B \in RefSummaries :
                \/ Rank(B.status) >= rank
                \/ ~ ( /\ B.k * n >= k * B.n
                       /\ FracLeq(B.num, B.den, num, den) )

\* A is 'good', and some B that is at least as good in both measures is 'excellent'
C4_Witness ==
    /\ Called("metrics")
    /\ entries # <<>>
    /\ metrics.status = "good"
    /\ \E B \in RefSummaries :
          /\ B.k * Len(entries) > InRangeCount(entries) * B.n
          /\ FracLess(B.num, B.den, CV2Num(Glucose(entries)), CV2Den(Glucose(entries)))
          /\ B.status = "excellent"

(***************************************************************************)
(* Properties of analyze_time_of_day, checked under SpecTime.              *)
(***************************************************************************)
ClaimHours ==
    [ morning |-> 5..11, afternoon |-> 12..17, evening |-> 18..22,
      night |-> {23} \cup 0..4 ]

\* C5: analyze_time_of_day returns exactly the four periods morning,
\* afternoon, evening and night; every record is counted in exactly the one
\* period whose hours (morning 5..11, afternoon 12..17, evening 18..22, night
\* 23 and 0..4) hold the hour of its timestamp, and the four counts sum to the
\* number of records.
C5_PeriodPartition ==
    Called("time") =>
        /\ DOMAIN periods = {"morning", "afternoon", "evening", "night"}
        /\ \A k \in DOMAIN periods :
               periods[k].count =
                   CountIdx(entries, LAMBDA e : e.timestamp.hour \in ClaimHours[k])
        /\ \A i \in 1..Len(entries) :
               Cardinality({k \in DOMAIN ClaimHours :
                               entries[i].timestamp.hour \in ClaimHours[k]}) = 1
        /\ periods["morning"].count + periods["afternoon"].count
               + periods["evening"].count + periods["night"].count = Len(entries)

\* records at noon, at 11pm and before 5am, in three different periods
C5_Witness ==
    /\ Called("time")
    /\ \E i, j, k \in 1..Len(entries) :
          /\ entries[i].timestamp.hour = 12
          /\ entries[j].timestamp.hour = 23
          /\ entries[k].timestamp.hour = 5
    /\ periods["afternoon"].count = 1
    /\ periods["night"].count = 1
    /\ periods["morning"].count = 1
    /\ periods["evening"].count = 0

(***************************************************************************)
(* Properties of identify_recurring_patterns.  The rules are restated over *)
(* the indices of the records of a meal category.                          *)
(***************************************************************************)
MealsOf(es) == {es[i].meal_type : i \in 1..Len(es)}

InMeal(es, m) == {i \in 1..Len(es) : es[i].meal_type = m}

GlucoseSum(es, m) ==
    SumSeq([i \in 1..Len(es) |-> IF es[i].meal_type = m THEN es[i].blood_glucose ELSE 0])

Tracked(es, m) == {i \in InMeal(es, m) : es[i].carbs_grams # None}

CarbSum(es, m) ==
    SumSeq([i \in 1..Len(es) |-> IF i \in Tracked(es, m) THEN es[i].carbs_grams ELSE 0])

Above(es, m, limit) == Cardinality({i \in InMeal(es, m) : es[i].blood_glucose > limit})

Below(es, m, limit) == Cardinality({i \in InMeal(es, m) : es[i].blood_glucose < limit})

\* rule 1: >= 2 carb-tracked entries, average tracked carbs > 60, average glucose > 11.1
Rule1Applies(es, m) ==
    /\ Cardinality(Tracked(es, m)) >= 2
    /\ CarbSum(es, m) > 60 * Cardinality(Tracked(es, m))
    /\ GlucoseSum(es, m) > 111 * Cardinality(InMeal(es, m))

\* at least 60% of the readings of the category exceed the limit
SixtyPctAbove(es, m, limit) == 5 * Above(es, m, limit) >= 3 * Cardinality(InMeal(es, m))

\* the patterns returned for a category
Returned(m) == {patterns[k] : k \in {j \in 1..Len(patterns) : patterns[j].context = m}}

ReturnedTypes(m) == {x.type : x \in Returned(m)}

\* C6: at most 3 patterns are returned and no two of them have the same
\* meal category.
C6_PatternCap ==
    Called("patterns") =>
        /\ Len(patterns) <= 3
        /\ \A i, j \in 1..Len(patterns) :
               patterns[i].context = patterns[j].context => i = j

\* C7 as stated: with at least 3 records, for a category with at least 2
\* records to which rule 1 does not apply, recurring_high is returned exactly
\* when at least 60% of its readings exceed the in-range ceiling 10.0.
C7_Original ==
    (Called("patterns") /\ Len(entries) >= 3) =>
        \A m \in MealsOf(entries) :
            (Cardinality(InMeal(entries, m)) >= 2 /\ ~Rule1Applies(entries, m)) =>
                ( ("recurring_high" \in ReturnedTypes(m) \/ Len(patterns) = 3)
                    = SixtyPctAbove(entries, m, 100) \/ Len(patterns) = 3 )

\* C7 as amended: with at least 3 records, for a category with at least 2
\* records to which rule 1 does not apply, recurring_high (severity info) is
\* returned only when at least 60% of its readings exceed the high threshold
\* 11.1, and is returned whenever they do unless 3 patterns of earlier
\* categories fill the result.
C7_RecurringHigh ==
    (Called("patterns") /\ Len(entries) >= 3) =>
        \A m \in MealsOf(entries) :
            (Cardinality(InMeal(entries, m)) >= 2 /\ ~Rule1Applies(entries, m)) =>
                /\ "recurring_high" \in ReturnedTypes(m) => SixtyPctAbove(entries, m, 111)
                /\ SixtyPctAbove(entries, m, 111) =>
                       \/ [type |-> "recurring_high", context |-> m, severity |-> "info",
                           message |-> <<"recurring_high", m>>] \in Returned(m)
                       \/ (Len(patterns) = 3 /\ Returned(m) = {})

\* exactly 3 of 5 readings of a category are above 11.1 and the others are
\* between 10.0 and 11.1
C7_Witness ==
    /\ Called("patterns")
    /\ \E m \in MealsOf(entries) :
          /\ Cardinality(InMeal(entries, m)) = 5
          /\ ~Rule1Applies(entries, m)
          /\ Above(entries, m, 111) = 3
          /\ Above(entries, m, 100) > 3
          /\ "recurring_high" \in ReturnedTypes(m)

\* The type and severity of the first matching rule, <<>> when no rule matches.
ExpectedPattern(es, m) ==
    LET n == Cardinality(InMeal(es, m))
    IN  IF n < 2 THEN <<>>
        ELSE IF Rule1Applies(es, m) THEN <<"high_carb_high_glucose", "info">>
        ELSE IF SixtyPctAbove(es, m, 111) THEN <<"recurring_high", "info">>
        ELSE IF 2 * Below(es, m, 33) >= n THEN <<"recurring_low", "warning">>
        ELSE IF 39 * n <= GlucoseSum(es, m) /\ GlucoseSum(es, m) <= 100 * n
             THEN <<"in_range", "success">>
        ELSE <<>>

\* C8: fewer than 3 records give the empty list; otherwise a category with
\* fewer than 2 records gives no pattern and every other category gives at most
\* one, that of the first matching rule in the order high_carb_high_glucose,
\* recurring_high, recurring_low (warning), in_range (success), and nothing
\* when no rule matches.  (A pattern is missing only when 3 patterns of earlier
\* categories fill the result.)
C8_FirstMatchingRule ==
    Called("patterns") =>
        /\ Len(entries) < 3 => patterns = <<>>
        /\ Len(entries) >= 3 =>
               \A m \in MealsOf(entries) :
                   LET exp == ExpectedPattern(entries, m)
                       got == {k \in 1..Len(patterns) : patterns[k].context = m}
                   IN  /\ Cardinality(got) <= 1
                       /\ \A k \in got : /\ exp # <<>>
                                         /\ patterns[k].type = exp[1]
                                         /\ patterns[k].severity = exp[2]
                       /\ (exp # <<>> /\ got = {}) => Len(patterns) = 3
        /\ \A k \in 1..Len(patterns) : patterns[k].context \in MealsOf(entries)

\* a category matching both recurring_low and in_range gives recurring_low,
\* and one matching both rule 1 and recurring_high gives high_carb_high_glucose
C8_Witness ==
    /\ Called("patterns")
    /\ \E m1, m2 \in MealsOf(entries) :
          /\ 2 * Below(entries, m1, 33) >= Cardinality(InMeal(entries, m1))
          /\ 39 * Cardinality(InMeal(entries, m1)) <= GlucoseSum(entries, m1)
          /\ ReturnedTypes(m1) = {"recurring_low"}
          /\ Rule1Applies(entries, m2)
          /\ SixtyPctAbove(entries, m2, 111)
          /\ ReturnedTypes(m2) = {"high_carb_high_glucose"}

FirstIndex(es, m) == CHOOSE i \in InMeal(es, m) : \A j \in InMeal(es, m) : i <= j

Producing(es) == {m \in MealsOf(es) : ExpectedPattern(es, m) # <<>>}

\* the number of pattern-producing categories first seen before category m
ProducingBefore(es, m) ==
    Cardinality({q \in Producing(es) : FirstIndex(es, q) < FirstIndex(es, m)})

\* C9: the result holds the patterns of the first 3 pattern-producing
\* categories, in the order of their first occurrence in the records; it is
\* not reordered by severity or by category name.
C9_FirstOccurrenceOrder ==
    (Called("patterns") /\ Len(entries) >= 3) =>
        /\ Len(patterns) = IF Cardinality(Producing(entries)) < 3
                           THEN Cardinality(Producing(entries)) ELSE 3
        /\ \A k \in 1..Len(patterns) :
               /\ patterns[k].context \in Producing(entries)
               /\ ProducingBefore(entries, patterns[k].context) = k - 1
               /\ patterns[k].type = ExpectedPattern(entries, patterns[k].context)[1]

\* four categories produce a pattern, the fourth a warning that is dropped,
\* while a success pattern of an earlier category is kept
C9_Witness ==
    /\ Called("patterns")
    /\ Cardinality(Producing(entries)) >= 4
    /\ \E m \in Producing(entries) :
          /\ ProducingBefore(entries, m) = 3
          /\ ExpectedPattern(entries, m)[2] = "warning"
          /\ Returned(m) = {}
    /\ \E k \in 1..Len(patterns) : patterns[k].severity = "success"

\* more than three categories produce a pattern
C6_Witness ==
    /\ Called("patterns")
    /\ Cardinality(Producing(entries)) >= 4
    /\ Len(patterns) = 3

(***************************************************************************)
(* Properties of generate_weekly_suggestion, checked under SpecSuggest.    *)
(***************************************************************************)
HourIn(es, hours) == {i \in 1..Len(es) : es[i].timestamp.hour \in hours}

SumOver(es, I, field(_)) ==
    SumSeq([i \in 1..Len(es) |-> IF i \in I THEN field(es[i]) ELSE 0])

\* (1) carb-tracked records < 30% of all records
Cond1(es) == 10 * Cardinality({i \in 1..Len(es) : es[i].carbs_grams # None}) < 3 * Len(es)

\* (2) records with hour 5..11 < 20% of all records
Cond2(es) == 5 * Cardinality(HourIn(es, 5..11)) < Len(es)

\* (3) evening (hour 18..22) average glucose > 11.1 and evening average
\* tracked carbs > 70
Cond3(es) ==
    LET ev == HourIn(es, 18..22)
        evc == {i \in ev : es[i].carbs_grams # None}
    IN  /\ evc # {}
        /\ SumOver(es, ev, LAMBDA e : e.blood_glucose) > 111 * Cardinality(ev)
        /\ SumOver(es, evc, LAMBDA e : e.carbs_grams) > 70 * Cardinality(evc)

\* (4) at least 3 records tagged 'stressed' with glucose > 11.1
Cond4(es) ==
    Cardinality({i \in 1..Len(es) : es[i].mood = "stressed"
                                    /\ es[i].blood_glucose > 111}) >= 3

\* C10: the suggestion is absent exactly when there are fewer than 5
\* records; with 5 or more it is the text of the first rule whose condition
\* holds in the order track-carbs, log-breakfast, high-carb-dinner, stress,
\* the generic encouragement being returned when none holds.
C10_SuggestionChain ==
    Called("suggest") =>
        /\ (suggestion = NoSuggestion) <=> (Len(entries) < 5)
        /\ Len(entries) >= 5 =>
               suggestion =
                   IF Cond1(entries) THEN TRACK_CARBS
                   ELSE IF Cond2(entries) THEN LOG_BREAKFAST
                   ELSE IF Cond3(entries) THEN HIGH_CARB_DINNERS
                   ELSE IF Cond4(entries) THEN STRESS
                   ELSE GREAT_HABITS

\* both the high-carb-dinner and the stress condition hold and the earlier
\* one decides
C10_Witness ==
    /\ Called("suggest")
    /\ Cond3(entries)
    /\ Cond4(entries)
    /\ suggestion = HIGH_CARB_DINNERS

(***************************************************************************)
(* Properties of generate_insights, checked under SpecInsights.            *)
(***************************************************************************)
\* the rule R1..R8 that emits an insight of the given type
RuleNo(type) ==
    CASE type = "worst_period" -> 1
      [] type = "best_period" -> 2
      [] type = "carb_spike" -> 3
      [] type = "meal_pattern" -> 4
      [] type = "hypo_frequency" -> 5
      [] type = "night_hypo" -> 6
      [] type = "stress_correlation" -> 7
      [] type = "consistency" -> 8

SeverityClass(severity) ==
    CASE severity = "warning" -> 0
      [] severity = "info" -> 1
      [] severity = "success" -> 2

\* x comes before y in the order by severity class, then by rule
Precedes(x, y) ==
    \/ SeverityClass(x.severity) < SeverityClass(y.severity)
    \/ /\ SeverityClass(x.severity) = SeverityClass(y.severity)
       /\ RuleNo(x.type) < RuleNo(y.type)

Range(s) == {s[i] : i \in 1..Len(s)}

\* C1: with at least 7 records the result is the first five elements (all,
\* if fewer) of the emitted insights stably sorted by severity: at most 5
\* entries, warnings before infos before successes, entries of equal severity
\* in rule order R1..R8, and every emitted insight that is left out comes
\* after every returned one in that order.
C1_SortedAndCapped ==
    (Called("insights") /\ Len(entries) >= 7) =>
        /\ Len(insights) = IF Len(emitted) < 5 THEN Len(emitted) ELSE 5
        /\ Range(insights) \subseteq Range(emitted)
        /\ \A i, j \in 1..Len(emitted) :
               i < j => RuleNo(emitted[i].type) < RuleNo(emitted[j].type)
        /\ \A i, j \in 1..Len(insights) : i < j => Precedes(insights[i], insights[j])
        /\ \A x \in Range(emitted) \ Range(insights) :
               \A y \in Range(insights) : Precedes(y, x)

\* all eight rules emit, and three insights are cut off
C1_Witness ==
    /\ Called("insights")
    /\ Len(entries) >= 7
    /\ Len(emitted) = 8
    /\ Len(insights) = 5
    /\ insights[5].severity = "info"

(***************************************************************************)
(* The dinner scenario of generate_weekly_suggestion, checked under        *)
(* SpecDinner.                                                             *)
(***************************************************************************)
DinnerCount(es) == Cardinality({i \in 1..Len(es) : es[i] = DinnerRecord})

\* C11 as stated: for 5 records, all at hour 19 with glucose 13.0 and
\* tracked carbs 90, the suggestion is the high-carb-dinners one.
C11_Original ==
    (Called("suggest") /\ Len(entries) = 5 /\ DinnerCount(entries) = 5)
        => suggestion = HIGH_CARB_DINNERS

\* C11 amended: for 5 records at hour 19 with glucose 13.0 and tracked carbs
\* 90, alone or together with morning records (carb tracking staying at 30%
\* or more), the suggestion is the log-breakfast one while the morning
\* records are fewer than 20% of the set (in particular when there is none)
\* and the high-carb-dinners one otherwise.
C11_DinnerScenario ==
    ( /\ Called("suggest")
      /\ DinnerCount(entries) = 5
      /\ Cardinality(HourIn(entries, 5..11)) = Len(entries) - 5
      /\ ~Cond1(entries) )
        => suggestion =
               IF 100 * (Len(entries) - 5) < 20 * Len(entries)
               THEN LOG_BREAKFAST
               ELSE HIGH_CARB_DINNERS

\* the 5 dinner records alone give the log-breakfast suggestion
C11_Witness ==
    /\ Called("suggest")
    /\ Len(entries) = 5
    /\ DinnerCount(entries) = 5
    /\ suggestion = LOG_BREAKFAST

(***************************************************************************)
(* The carb aggregates of calculate_advanced_metrics, checked under        *)
(* SpecCarbs.                                                              *)
(***************************************************************************)
TrackedIdx(es) == {i \in 1..Len(es) : es[i].carbs_grams # None}

TrackedTotal(es) == SumOver(es, TrackedIdx(es), LAMBDA e : e.carbs_grams)

TrackedDays(es) == {es[i].timestamp.date : i \in TrackedIdx(es)}

\* C12: avg_carbs_per_entry and avg_daily_carbs are absent exactly when no
\* record has tracked carbs, and then total_carbs = 0 and entries_with_carbs
\* = 0; when at least one record has tracked carbs (0 counts as tracked) both
\* averages are numbers equal to the total over the tracked entries divided
\* by the number of tracked entries and by the number of distinct days with
\* a tracked entry, rounded to one decimal.
C12_CarbAverages ==
    (Called("metrics") /\ entries # <<>>) =>
        LET T == TrackedIdx(entries)
        IN  /\ (metrics.avg_carbs_per_entry = None) <=> (T = {})
            /\ (metrics.avg_daily_carbs = None) <=> (T = {})
            /\ T = {} => (metrics.total_carbs = 0 /\ metrics.entries_with_carbs = 0)
            /\ T # {} =>
                 /\ metrics.avg_carbs_per_entry =
                        RoundDiv(10 * TrackedTotal(entries), Cardinality(T))
                 /\ metrics.avg_daily_carbs =
                        RoundDiv(10 * TrackedTotal(entries),
                                 Cardinality(TrackedDays(entries)))

(***************************************************************************)
(* The empty record set and the 7-record floor, checked under SpecCalls    *)
(* and SpecInsights.                                                       *)
(***************************************************************************)
\* some rule of generate_insights that reads the mapping would fire on it
MappingWouldFire(ta) == Rule1(ta) # <<>> \/ Rule2(ta) # <<>> \/ Rule6(ta) # <<>>

\* C13: on the empty record set calculate_advanced_metrics returns status
\* 'no_data', identify_recurring_patterns the empty list,
\* generate_weekly_suggestion absent and generate_insights the empty list,
\* whatever the period mapping.
C13_EmptyInput ==
    entries = <<>> =>
        /\ Called("metrics") => metrics = [status |-> "no_data"]
        /\ Called("patterns") => patterns = <<>>
        /\ Called("suggest") => suggestion = NoSuggestion
        /\ Called("insights") => insights = <<>>

\* generate_insights was called on no records with a mapping whose periods
\* would make a rule fire
C13_Witness ==
    /\ entries = <<>>
    /\ Called("insights")
    /\ MappingWouldFire(time_analysis)
    /\ insights = <<>>

\* C14: for fewer than 7 records generate_insights returns the empty list
\* whatever the records and the period mapping; no rule is evaluated.
C14_BelowFloor ==
    (Called("insights") /\ Len(entries) < 7) => (insights = <<>> /\ emitted = <<>>)

\* exactly 6 records, among them lows that rule 5 would report, and a
\* mapping that rule 1 would report
C14_Witness ==
    /\ Called("insights")
    /\ Len(entries) = 6
    /\ Rule5(entries) # <<>>
    /\ Rule1(time_analysis) # <<>>
    /\ insights = <<>>

(***************************************************************************)
(* The per-period fields of analyze_time_of_day, checked under             *)
(* SpecPeriodCarbs.                                                        *)
(***************************************************************************)
PeriodIdx(es, k) == HourIn(es, ClaimHours[k])

\* C15: a period into which no record falls has count 0, has_data false and
\* avg_glucose, time_in_range_pct, hypo_pct, hyper_pct and avg_carbs absent;
\* a period with at least one record has has_data true and avg_glucose and
\* the three percentages present and computed from that period's records
\* only, with avg_carbs absent exactly when none of the period's records
\* tracked carbs (and otherwise the average over the tracked ones).
C15_PeriodFields ==
    Called("time") =>
        \A k \in DOMAIN periods :
            LET I == PeriodIdx(entries, k)
                T == {i \in I : entries[i].carbs_grams # None}
                n == Cardinality(I)
                p == periods[k]
            IN  /\ I = {} =>
                      /\ p.count = 0
                      /\ p.has_data = FALSE
                      /\ p.avg_glucose = None
                      /\ p.time_in_range_pct = None
                      /\ p.hypo_pct = None
                      /\ p.hyper_pct = None
                      /\ p.avg_carbs = None
                /\ I # {} =>
                      /\ p.count = n
                      /\ p.has_data = TRUE
                      /\ p.avg_glucose # None
                      \* the mean of the period's readings, to one decimal
                      /\ 2 * Abs(p.avg_glucose * n
                                 - SumOver(entries, I, LAMBDA e : e.blood_glucose)) <= n
                      /\ p.time_in_range_pct # None
                      /\ p.time_in_range_pct =
                             RoundDiv(1000 * Cardinality({i \in I :
                                 39 <= entries[i].blood_glucose
                                 /\ entries[i].blood_glucose <= 100}), n)
                      /\ p.hypo_pct # None
                      /\ p.hypo_pct =
                             RoundDiv(1000 * Cardinality({i \in I :
                                 entries[i].blood_glucose < 39}), n)
                      /\ p.hyper_pct # None
                      /\ p.hyper_pct =
                             RoundDiv(1000 * Cardinality({i \in I :
                                 entries[i].blood_glucose > 100}), n)
                      /\ (p.avg_carbs = None) <=> (T = {})
                      /\ T # {} =>
                             p.avg_carbs =
                                 RoundDiv(SumOver(entries, T, LAMBDA e : e.carbs_grams),
                                          Cardinality(T))

\* the morning has no record, the evening has records whose carbs are all
\* tracked as 0 and the night has records none of which tracked carbs
C15_Witness ==
    /\ Called("time")
    /\ PeriodIdx(entries, "morning") = {}
    /\ periods["morning"].avg_glucose = None
    /\ Cardinality(PeriodIdx(entries, "evening")) = 2
    /\ periods["evening"].avg_carbs = 0
    /\ PeriodIdx(entries, "night") # {}
    /\ periods["night"].has_data
    /\ periods["night"].avg_carbs = None

(***************************************************************************)
(* The calls as seen by the caller, checked under SpecCalls.               *)
(***************************************************************************)
IsCallStep == pc = "ready" /\ pc' # "ready"

\* C16: a call of calculate_advanced_metrics, analyze_time_of_day,
\* identify_recurring_patterns, generate_weekly_suggestion or
\* generate_insights leaves the caller's record collection and period
\* mapping as they were and writes nothing but its own result; and after any
\* sequence of earlier calls on any inputs its result is the one the call
\* gives on these inputs as a first call.
C16_PureCalls ==
    [][ IsCallStep =>
          /\ entries' = entries
          /\ time_analysis' = time_analysis
          /\ pc' = "metrics" =>
                 /\ metrics' = calculate_advanced_metrics(entries)
                 /\ UNCHANGED <<periods, patterns, suggestion, emitted, insights>>
          /\ pc' = "time" =>
                 /\ periods' = analyze_time_of_day(entries)
                 /\ UNCHANGED <<metrics, patterns, suggestion, emitted, insights>>
          /\ pc' = "patterns" =>
                 /\ patterns' = identify_recurring_patterns(entries)
                 /\ UNCHANGED <<metrics, periods, suggestion, emitted, insights>>
          /\ pc' = "suggest" =>
                 /\ suggestion' = generate_weekly_suggestion(entries)
                 /\ UNCHANGED <<metrics, periods, patterns, emitted, insights>>
          /\ pc' = "insights" =>
                 /\ insights' = generate_insights(entries, time_analysis)
                 /\ UNCHANGED <<metrics, periods, patterns, suggestion>> ]_vars

\* generate_insights has returned insights on a record collection that reads
\* differently backwards and on a mapping with data
C16_Witness ==
    /\ Called("insights")
    /\ insights # <<>>
    /\ Len(entries) >= 7
    /\ entries[1] # entries[Len(entries)]
    /\ MappingWouldFire(time_analysis)

(***************************************************************************)
(* Demo mode, checked under SpecApp.                                       *)
(***************************************************************************)
\* C17: while the session is in demo mode no request (to the dashboard,
\* /log, /export/csv, /avatar/update, /settings or any other route) creates a
\* log entry or changes the demo user's progress row (total_logs,
\* current_streak, longest_streak, badges, selected avatar), and none is
\* answered with a CSV export.
C17_DemoReadOnly ==
    [][ is_demo_mode =>
          /\ log_entries' = log_entries
          /\ progress'[DEMO_USER] = progress[DEMO_USER]
          /\ response' # "csv" ]_vars

\* a write request has just been turned away in demo mode, on a day on which
\* the demo user's newest entry is of today
C17_Witness ==
    /\ is_demo_mode
    /\ session.user = DEMO_USER
    /\ response \in {"log_blocked", "export_blocked", "avatar_blocked", "settings_blocked"}
    /\ log_entries[DEMO_USER].latest = today
    /\ progress[DEMO_USER].total_logs = SeedCount

(***************************************************************************)
(* The period rules R1 and R2 of generate_insights, checked under          *)
(* SpecInsights.  A rule emits its insight into the list that is then      *)
(* sorted and cut to five.                                                 *)
(***************************************************************************)
\* the periods of the mapping with data and at least 3 records
Eligible(ta) == {k \in DOMAIN ta : ta[k].has_data /\ ta[k].count >= 3}

LowestTIR(ta) ==
    CHOOSE t \in {ta[k].time_in_range_pct : k \in Eligible(ta)} :
        \A k \in Eligible(ta) : t <= ta[k].time_in_range_pct

HighestTIR(ta) ==
    CHOOSE t \in {ta[k].time_in_range_pct : k \in Eligible(ta)} :
        \A k \in Eligible(ta) : t >= ta[k].time_in_range_pct

\* the position of a period in the mapping
PeriodPos(k) == CHOOSE i \in 1..Len(PeriodOrder) : PeriodOrder[i] = k

\* the first eligible period, in the order of the mapping, with this in-range%
FirstWithTIR(ta, t) ==
    CHOOSE k \in Eligible(ta) :
        /\ ta[k].time_in_range_pct = t
        /\ \A j \in Eligible(ta) :
               ta[j].time_in_range_pct = t => PeriodPos(k) <= PeriodPos(j)

WorstSelected(ta) == FirstWithTIR(ta, LowestTIR(ta))

BestSelected(ta) == FirstWithTIR(ta, HighestTIR(ta))

EmittedOf(type) == {i \in 1..Len(emitted) : emitted[i].type = type}

\* C18: with 7 or more records a 'best_period' success insight is emitted
\* exactly when some period has data and at least 3 records, the highest
\* in-range% among those periods is >= 70 and the period attaining it is not
\* the one selected as worst; so the worst_period and the best_period
\* insight never name the same period, and none is emitted when one period
\* only is eligible or all eligible periods have the same in-range%.
C18_BestPeriod ==
    (Called("insights") /\ Len(entries) >= 7) =>
        LET ta == time_analysis
            best == EmittedOf("best_period")
            worst == EmittedOf("worst_period")
        IN  /\ Cardinality(best) <= 1
            /\ (best # {}) <=>
                   /\ Eligible(ta) # {}
                   /\ HighestTIR(ta) >= 700
                   /\ BestSelected(ta) # WorstSelected(ta)
            /\ \A i \in best :
                   /\ emitted[i].severity = "success"
                   /\ emitted[i].title[2] = ta[BestSelected(ta)].label
                   /\ \A j \in worst : emitted[j].title[1] # emitted[i].title[2]
            /\ Cardinality(Eligible(ta)) = 1 => best = {}
            /\ (Eligible(ta) # {} /\ LowestTIR(ta) = HighestTIR(ta)) => best = {}

\* a worst and a best period are both reported
C18_Witness ==
    /\ Called("insights")
    /\ Len(entries) >= 7
    /\ EmittedOf("best_period") # {}
    /\ EmittedOf("worst_period") # {}

\* two periods are eligible, both 70% or more in range and equal, and no best
\* period is reported
C18_TieWitness ==
    /\ Called("insights")
    /\ Len(entries) >= 7
    /\ Cardinality(Eligible(time_analysis)) >= 2
    /\ LowestTIR(time_analysis) = HighestTIR(time_analysis)
    /\ HighestTIR(time_analysis) >= 700
    /\ EmittedOf("best_period") = {}

\* C19: with 7 or more records a 'worst_period' warning is emitted exactly
\* when some period has data and at least 3 records and the lowest in-range%
\* among those periods is < 55; it names a period attaining that lowest
\* value, and never a period with fewer than 3 records, even one whose
\* in-range% is lower.
C19_WorstPeriod ==
    (Called("insights") /\ Len(entries) >= 7) =>
        LET ta == time_analysis
            worst == EmittedOf("worst_period")
        IN  /\ Cardinality(worst) <= 1
            /\ (worst # {}) <=> (Eligible(ta) # {} /\ LowestTIR(ta) < 550)
            /\ \A i \in worst :
                   /\ emitted[i].severity = "warning"
                   /\ \E k \in Eligible(ta) :
                          /\ ta[k].time_in_range_pct = LowestTIR(ta)
                          /\ emitted[i].title[1] = ta[k].label
                          /\ emitted[i].message[3] = LowestTIR(ta)
                   /\ \A k \in DOMAIN ta :
                          (ta[k].has_data /\ ta[k].count < 3)
                              => emitted[i].title[1] # ta[k].label

\* a worst period is reported although a period with fewer than 3 records
\* has a lower in-range%
C19_Witness ==
    /\ Called("insights")
    /\ Len(entries) >= 7
    /\ EmittedOf("worst_period") # {}
    /\ \E k \in DOMAIN time_analysis :
          /\ time_analysis[k].has_data
          /\ time_analysis[k].count < 3
          /\ time_analysis[k].time_in_range_pct < LowestTIR(time_analysis)

(***************************************************************************)
(* The meal rule R4 of generate_insights, checked under SpecMeals.         *)
(***************************************************************************)
\* the category is not 'none', has at least 5 records and at least 65% of
\* its readings are above 10.0
MealQualifies(es, m) ==
    /\ m # "none"
    /\ Cardinality(InMeal(es, m)) >= 5
    /\ 100 * Above(es, m, 100) >= 65 * Cardinality(InMeal(es, m))

QualifyingMeals(es) == {m \in MealsOf(es) : MealQualifies(es, m)}

LowCount(es) == Cardinality({i \in 1..Len(es) : es[i].blood_glucose < 39})

\* C21: with 7 or more records a 'hypo_frequency' warning is emitted
\* exactly when the number of readings below 3.9 is >= 5 or is >= 5% of all
\* records; its message carries that count and that percentage, to one
\* decimal.
C21_HypoFrequency ==
    (Called("insights") /\ Len(entries) >= 7) =>
        LET hypo == EmittedOf("hypo_frequency")
            n == Len(entries)
            k == LowCount(entries)
        IN  /\ Cardinality(hypo) <= 1
            /\ (hypo # {}) <=> (k >= 5 \/ 100 * k >= 5 * n)
            /\ \A i \in hypo :
                   /\ emitted[i].severity = "warning"
                   /\ emitted[i].message[1] = k
                   /\ 2 * Abs(emitted[i].message[2] * n - 1000 * k) <= n

\* the warning is emitted for 5 low readings that are less than 5% of the
\* records
C21_Witness ==
    /\ Called("insights")
    /\ LowCount(entries) = 5
    /\ 100 * LowCount(entries) < 5 * Len(entries)
    /\ EmittedOf("hypo_frequency") # {}

\* the warning is emitted for 1 low reading in 20 records and not for 1 in 21
C21_PercentageWitness ==
    /\ Called("insights")
    /\ LowCount(entries) = 1
    /\ \/ Len(entries) = 20 /\ EmittedOf("hypo_frequency") # {}
       \/ Len(entries) = 21 /\ EmittedOf("hypo_frequency") = {}

(***************************************************************************)
(* The night rule R6 of generate_insights, checked under SpecNight.        *)
(***************************************************************************)
HasNightData(ta) == "night" \in DOMAIN ta /\ ta["night"].has_data

\* C22: with 7 or more records a 'night_hypo' warning is emitted exactly
\* when the period mapping has a night period with data whose hypo
\* percentage is >= 8, whatever the number of records of that period; with
\* a mapping without a night entry or with an empty night period the call
\* returns its list and no night_hypo insight is in it.
C22_NightHypo ==
    (Called("insights") /\ Len(entries) >= 7) =>
        LET ta == time_analysis
            night == EmittedOf("night_hypo")
        IN  /\ Cardinality(night) <= 1
            /\ (night # {}) <=> (HasNightData(ta) /\ ta["night"].hypo_pct >= 80)
            /\ \A i \in night :
                   /\ emitted[i].severity = "warning"
                   /\ emitted[i].message[1] = ta["night"].hypo_pct
                   /\ \E j \in 1..Len(insights) : insights[j] = emitted[i]
            /\ ~HasNightData(ta) =>
                   \A j \in 1..Len(insights) : insights[j].type # "night_hypo"

\* the warning is emitted for a night period of one record
C22_Witness ==
    /\ Called("insights")
    /\ Len(entries) >= 7
    /\ HasNightData(time_analysis)
    /\ time_analysis["night"].count = 1
    /\ EmittedOf("night_hypo") # {}

\* no warning at 7.9%, with an empty night period and without a night entry
C22_NoNightWitness ==
    /\ Called("insights")
    /\ Len(entries) >= 7
    /\ EmittedOf("night_hypo") = {}
    /\ \/ "night" \notin DOMAIN time_analysis
       \/ ~time_analysis["night"].has_data
       \/ time_analysis["night"].hypo_pct = 79

(***************************************************************************)
(* The carb rule R3 of generate_insights, checked under SpecCarbSpike.     *)
(***************************************************************************)
\* the records with tracked carbs above 60
HighCarbIdx(es) ==
    {i \in 1..Len(es) : es[i].carbs_grams # None /\ es[i].carbs_grams > 60}

\* those of them with a reading above 10.0
SpikeIdx(es) == {i \in HighCarbIdx(es) : es[i].blood_glucose > 100}

\* C23: with 7 or more records a 'carb_spike' info insight is emitted
\* exactly when at least 3 records have tracked carbs > 60 and strictly more
\* than 55% of those records have a reading above 10.0; records with
\* untracked carbs or with carbs <= 60 count towards neither number.
C23_CarbSpike ==
    (Called("insights") /\ Len(entries) >= 7) =>
        LET spike == EmittedOf("carb_spike")
            hc == Cardinality(HighCarbIdx(entries))
            sp == Cardinality(SpikeIdx(entries))
        IN  /\ Cardinality(spike) <= 1
            /\ (spike # {}) <=> (hc >= 3 /\ 100 * sp > 55 * hc)
            /\ \A i \in spike : emitted[i].severity = "info"

\* the insight is emitted although, counted over all records, the readings
\* above 10.0 are not more than 55%, and some of the other records have
\* carbs of 60 and some have none tracked
C23_Witness ==
    /\ Called("insights")
    /\ Len(entries) >= 7
    /\ EmittedOf("carb_spike") # {}
    /\ 100 * Cardinality({i \in 1..Len(entries) : entries[i].blood_glucose > 100})
           <= 55 * Len(entries)
    /\ \E i \in 1..Len(entries) : entries[i].carbs_grams = 60
    /\ \E i \in 1..Len(entries) : entries[i].carbs_grams = None

\* 11 of 20 high-carb records are above 10.0 and no insight is emitted
C23_TieWitness ==
    /\ Called("insights")
    /\ Cardinality(HighCarbIdx(entries)) = 20
    /\ Cardinality(SpikeIdx(entries)) = 11
    /\ EmittedOf("carb_spike") = {}

(***************************************************************************)
(* The consistency rule R8 of generate_insights, checked under             *)
(* SpecConsistency.                                                        *)
(***************************************************************************)
\* the calendar days with a record
DaysLogged(es) == {es[i].timestamp.date : i \in 1..Len(es)}

\* the number of days from the earliest to the latest record day, inclusive
DaysSpanned(es) ==
    LET first == CHOOSE d \in DaysLogged(es) : \A x \in DaysLogged(es) : d <= x
        last == CHOOSE d \in DaysLogged(es) : \A x \in DaysLogged(es) : x <= d
    IN  last - first + 1

\* C24: a 'consistency' success insight is emitted exactly when there are
\* at least 14 records and the days logged are at least 80% of the days
\* spanned; with all records on one day the span is 1 day and the rate 100%.
C24_Consistency ==
    (Called("insights") /\ entries # <<>>) =>
        LET cons == EmittedOf("consistency")
            logged == Cardinality(DaysLogged(entries))
            spanned == DaysSpanned(entries)
        IN  /\ Cardinality(cons) <= 1
            /\ (cons # {}) <=> (Len(entries) >= 14 /\ 100 * logged >= 80 * spanned)
            /\ \A i \in cons :
                   /\ emitted[i].severity = "success"
                   /\ emitted[i].message[1] = logged
                   /\ emitted[i].message[2] = spanned
                   /\ logged = 1 => (emitted[i].message[2] = 1 /\ emitted[i].message[3] = 100)
            /\ (logged = 1 /\ Len(entries) >= 14) => cons # {}

\* the insight is emitted for 4 days logged out of 5 with the records not in
\* the order of their days
C24_Witness ==
    /\ Called("insights")
    /\ EmittedOf("consistency") # {}
    /\ Cardinality(DaysLogged(entries)) = 4
    /\ DaysSpanned(entries) = 5
    /\ entries[1].timestamp.date = 3
    /\ entries[Len(entries)].timestamp.date = 2

\* no insight for 13 records of one day, one for 14 records of one day, and
\* none for 14 records on 3 days out of 4
C24_EdgeWitness ==
    /\ Called("insights")
    /\ \/ /\ Len(entries) = 13
          /\ Cardinality(DaysLogged(entries)) = 1
          /\ EmittedOf("consistency") = {}
       \/ /\ Len(entries) = 14
          /\ Cardinality(DaysLogged(entries)) = 1
          /\ EmittedOf("consistency") # {}
       \/ /\ Len(entries) >= 14
          /\ Cardinality(DaysLogged(entries)) = 3
          /\ DaysSpanned(entries) = 4
          /\ EmittedOf("consistency") = {}

(***************************************************************************)
(* The stress rule R7 of generate_insights, checked under SpecStress.      *)
(***************************************************************************)
StressedIdx(es) == {i \in 1..Len(es) : es[i].mood = "stressed"}

\* the sum of the readings of the records at these positions
RECURSIVE ReadingSum(_, _)
ReadingSum(es, I) ==
    IF I = {} THEN 0
    ELSE LET i == CHOOSE x \in I : TRUE
         IN  es[i].blood_glucose + ReadingSum(es, I \ {i})

\* the average reading of the stressed records minus the average reading of
\* all records, times the two numbers of records, in tenths of mmol/L
StressExcess(es) ==
    ReadingSum(es, StressedIdx(es)) * Len(es)
        - ReadingSum(es, 1..Len(es)) * Cardinality(StressedIdx(es))

\* 0.9 mmol/L on the scale of StressExcess
StressMargin(es) == 9 * Cardinality(StressedIdx(es)) * Len(es)

\* C25: with 7 or more records a 'stress_correlation' info insight is
\* emitted exactly when at least 3 records are tagged 'stressed' and the
\* average reading of the stressed records exceeds the average reading of
\* all records, stressed ones included, by strictly more than 0.9.
C25_StressCorrelation ==
    (Called("insights") /\ Len(entries) >= 7) =>
        LET stress == EmittedOf("stress_correlation")
        IN  /\ Cardinality(stress) <= 1
            /\ (stress # {}) <=>
                   /\ Cardinality(StressedIdx(entries)) >= 3
                   /\ StressExcess(entries) > StressMargin(entries)
            /\ \A i \in stress : emitted[i].severity = "info"

\* the statement of C25 away from an excess of exactly 0.9, where the
\* binary comparison and the decimal one agree
C25_AwayFromTies ==
    (Called("insights") /\ Len(entries) >= 7
        /\ StressExcess(entries) # StressMargin(entries)) =>
        LET stress == EmittedOf("stress_correlation")
        IN  /\ Cardinality(stress) <= 1
            /\ (stress # {}) <=>
                   /\ Cardinality(StressedIdx(entries)) >= 3
                   /\ StressExcess(entries) > StressMargin(entries)
            /\ \A i \in stress : emitted[i].severity = "info"

\* the insight is emitted for 3 stressed records whose average is exactly
\* 0.9 above the overall average
C25_TieWitness ==
    /\ Called("insights")
    /\ Len(entries) >= 7
    /\ Cardinality(StressedIdx(entries)) = 3
    /\ StressExcess(entries) = StressMargin(entries)
    /\ EmittedOf("stress_correlation") # {}

(***************************************************************************)
(* update_streak, checked under SpecStreak.                                *)
(***************************************************************************)
\* C26: a call of update_streak for a user with a progress row sets
\* last_log_date to the log date and: on the first ever log sets
\* current_streak and longest_streak to 1; on a log of the same date as
\* last_log_date leaves both; on a log one day after last_log_date adds 1
\* to current_streak and raises longest_streak to it if exceeded; on any
\* other date, later by 2 days or more or earlier, sets current_streak to 1
\* and leaves longest_streak.  For a user without a row nothing changes.
C26_UpdateStreak ==
    [][ streak_call' # NoCall =>
          LET u == streak_call'.user_id
              d == streak_call'.log_date
          IN  IF u \notin DOMAIN progress THEN progress' = progress
              ELSE LET p == progress[u]
                       q == progress'[u]
                   IN  /\ DOMAIN progress' = DOMAIN progress
                       /\ \A v \in DOMAIN progress \ {u} : progress'[v] = progress[v]
                       /\ q.last_log_date = d
                       /\ p.last_log_date = None =>
                              q.current_streak = 1 /\ q.longest_streak = 1
                       /\ (p.last_log_date # None /\ d = p.last_log_date) =>
                              /\ q.current_streak = p.current_streak
                              /\ q.longest_streak = p.longest_streak
                       /\ (p.last_log_date # None /\ d = p.last_log_date + 1) =>
                              /\ q.current_streak = p.current_streak + 1
                              /\ q.longest_streak =
                                     IF q.current_streak > p.longest_streak
                                     THEN q.current_streak ELSE p.longest_streak
                       /\ (p.last_log_date # None /\ (d > p.last_log_date + 1
                                                        \/ d < p.last_log_date)) =>
                              /\ q.current_streak = 1
                              /\ q.longest_streak = p.longest_streak ]_vars

\* the third call on a new row has reset a streak of 2 with a log dated day
\* 1, which is before the last log date
C26_Witness ==
    /\ streak_call = StreakCall("u1", 1)
    /\ "u1" \in DOMAIN progress
    /\ progress["u1"].total_logs = 3
    /\ progress["u1"].longest_streak = 2
    /\ progress["u1"].current_streak = 1
    /\ progress["u1"].last_log_date = 1

\* update_streak was called for a user without a row
C26_NoRowWitness ==
    /\ streak_call # NoCall
    /\ streak_call.user_id \notin DOMAIN progress

(***************************************************************************)
(* The log counter of a user's progress row, checked under SpecApp.        *)
(***************************************************************************)
\* C27: after any sequence of log submissions and dashboard views by a
\* user other than the demo user, the user's total_logs equals the number
\* of log entries the user has submitted, so that viewing the dashboard
\* does not change total_logs.
C27_TotalLogs ==
    \A u \in DOMAIN progress \ {DEMO_USER} :
        progress[u].total_logs = log_entries[u].count

(***************************************************************************)
(* generate_insights on one record set supplied in two orders, checked     *)
(* under SpecInsights.                                                     *)
(***************************************************************************)
\* the records in the opposite order
Reversed(es) == [i \in 1..Len(es) |-> es[Len(es) + 1 - i]]

\* C28: the set of insights that generate_insights returns on 7 or more
\* records, with the period mapping computed from them, is the set it
\* returns on the same records supplied in the opposite order, with the
\* period mapping computed from those.
C28_OrderIndependent ==
    (Called("insights") /\ Len(entries) >= 7
        /\ time_analysis = analyze_time_of_day(entries)) =>
        Range(insights)
            = Range(generate_insights(Reversed(entries),
                                      analyze_time_of_day(Reversed(entries))))

\* the statement of C28 on record sets in which at most one meal category
\* qualifies for rule 4
C28_SingleCategory ==
    (Called("insights") /\ Len(entries) >= 7
        /\ time_analysis = analyze_time_of_day(entries)
        /\ Cardinality(QualifyingMeals(entries)) <= 1) =>
        Range(insights)
            = Range(generate_insights(Reversed(entries),
                                      analyze_time_of_day(Reversed(entries))))

(***************************************************************************)
(* The cap of generate_insights and the warnings, checked under            *)
(* SpecInsights.                                                           *)
(***************************************************************************)
WarningTypes == {"worst_period", "meal_pattern", "hypo_frequency", "night_hypo"}

\* the emitted insights that the returned list does not hold
Dropped == {i \in 1..Len(emitted) : emitted[i] \notin Range(insights)}

\* C29: the cap of 5 never removes a warning: the emitted insights of
\* severity warning are those of the types worst_period, meal_pattern,
\* hypo_frequency and night_hypo, at most one of each, every one of them is
\* in the returned list, and an insight that is dropped is of severity info
\* or success.
C29_WarningsKept ==
    Called("insights") =>
        /\ \A i \in 1..Len(emitted) :
               (emitted[i].severity = "warning") <=> (emitted[i].type \in WarningTypes)
        /\ \A t \in WarningTypes : Cardinality(EmittedOf(t)) <= 1
        /\ \A i \in 1..Len(emitted) :
               emitted[i].severity = "warning" => emitted[i] \in Range(insights)
        /\ \A i \in Dropped : emitted[i].severity \in {"info", "success"}

\* all four warnings are emitted and two other insights are dropped
C29_Witness ==
    /\ Called("insights")
    /\ \A t \in WarningTypes : EmittedOf(t) # {}
    /\ Cardinality(Dropped) >= 2

\* the rows that started without a last_log_date: those of registered users
StartedUndated == DOMAIN progress \ {DEMO_USER}

\* C30: for a progress row that starts with no last_log_date, after every
\* call of update_streak longest_streak >= current_streak >= 1, and from
\* the state after one call to the state after the next longest_streak
\* does not decrease.
C30_StreakInvariant ==
    [][ streak_call' # NoCall =>
          \A u \in StartedUndated :
              LET p == progress[u]
                  q == progress'[u]
              IN  /\ u = streak_call'.user_id =>
                         /\ q.current_streak >= 1
                         /\ q.longest_streak >= q.current_streak
                  /\ p.last_log_date # None =>
                         /\ q.current_streak >= 1
                         /\ q.longest_streak >= q.current_streak
                         /\ q.longest_streak >= p.longest_streak ]_vars

\* the fourth call on a new row has reset a streak of 3
C30_Witness ==
    /\ streak_call # NoCall
    /\ streak_call.user_id = "u1"
    /\ "u1" \in DOMAIN progress
    /\ progress["u1"].total_logs = 4
    /\ progress["u1"].longest_streak = 3
    /\ progress["u1"].current_streak = 1

=============================================================================
